---- MODULE Spec2Model ----
(***************************************************************************)
(* Model of the doublefetch search extractor (search-extractor.js):        *)
(*   - the pattern interpreter: runSelector, runTransforms, findFirstMatch *)
(*     and SearchExtractor.extractMessages;                                *)
(*   - the job entry point SearchExtractor.runJob with the persisted-hash  *)
(*     cooldown store.                                                     *)
(*                                                                         *)
(* JavaScript scalars are TLA+ strings.  null, undefined and a thrown      *)
(* error are reserved strings, so that every scalar compares with every    *)
(* other one.  A DOM element is a record [tag, attrs, text, kids]; a text  *)
(* node is an element with tag "#text".  A CSS selector is modelled by the *)
(* tag name it selects.                                                    *)
(***************************************************************************)
EXTENDS Integers, Sequences, FiniteSets, TLC

VARIABLES
  \* ---- SearchExtractor.extractMessages, called on its own ----
  patterns,   \* what patterns.getRulesSnapshot() returns: category -> rule
  doc,        \* the document handed to extractMessages (pruned in place)
  args,       \* [query, category, url, ctry] of the call
  calls,      \* number of extractMessages calls made on doc
  result,     \* [err, msgs] of the last call, NoResult before the first
  \* ---- SearchExtractor.runJob ----
  store,      \* persistedHashes: the set of fingerprints it holds
  pc,         \* job -> "new" | "fetching" | "parsing" | "deleting" | "done"
  job,        \* job -> [query, category, url], the job's arguments
  jobDoc,     \* job -> the document parseHtml resolved with, or NoElem
  docState,   \* job -> "none" | "open" | "closed"
  pending,    \* job -> the error caught by the fetch/parse catch block
  outcome,    \* job -> [kind, messages, reason, error]
  log,        \* job -> the collaborator calls the job has made, in order
  \* ---- TokenTelemetry and its two send pipelines ----
  options,    \* DEFAULT_CONFIG merged with the constructor's options
  day,        \* trustedClock.getTimeAsYYYYMMDD()
  now,        \* Date.now()
  today,      \* the `today` TokenTelemetry.init captured
  cache,      \* pipeline -> its map cache: key -> entry
  db,         \* pipeline -> its database table: primary key -> row
  filteredTokensBatch,  \* what subjectTokens published since the last tick
  batch,      \* pipeline -> the keys its send queue published since its tick
  running,    \* the async pipeline and clean invocations at their awaits
  telemetry,  \* the messages handed to telemetry(), in order
  ticks,      \* pipeline -> number of batches its timer has published
  requests,   \* number of extractKeyTokens calls
  state,      \* the request state of the last extractKeyTokens call
  ret         \* what the last extractKeyTokens call returned

vars == <<patterns, doc, args, calls, result,
          store, pc, job, jobDoc, docState, pending, outcome, log,
          options, day, now, today, cache, db, filteredTokensBatch, batch,
          running, telemetry, ticks, requests, state, ret>>

extractVars == <<patterns, doc, args, calls, result>>
jobVars == <<store, pc, job, jobDoc, docState, pending, outcome, log>>
telemetryVars == <<options, day, now, today, cache, db, filteredTokensBatch,
                   batch, running, telemetry, ticks, requests, state, ret>>

----------------------------------------------------------------------------
(* JavaScript values                                                       *)

Null == "<null>"
Undefined == "<undefined>"
BadPatternError == "<BadPatternError>"
TypeError == "<TypeError>"
NetworkError == "<NetworkError>"
PermanentHttpError == "<PermanentHttpError>"
ParseError == "<ParseError>"

IsThrow(v) == v \in {BadPatternError, TypeError}

\* a value handed on as it is, undefined included
KeepUndefined(v) == v

\* x ?? null
OrNull(v) == IF v = Undefined THEN Null ELSE v

RECURSIVE ConcatStr(_)
ConcatStr(s) == IF s = <<>> THEN "" ELSE Head(s) \o ConcatStr(Tail(s))

\* the first throw of a sequence of scalars, or "" when none is a throw
RECURSIVE FirstThrow(_)
FirstThrow(s) ==
  IF s = <<>> THEN ""
  ELSE IF IsThrow(Head(s)) THEN Head(s) ELSE FirstThrow(Tail(s))

RECURSIVE MapKeys(_)
MapKeys(pairs) ==
  IF pairs = <<>> THEN <<>> ELSE <<Head(pairs).key>> \o MapKeys(Tail(pairs))

InSeq(x, s) == \E i \in 1..Len(s) : s[i] = x

----------------------------------------------------------------------------
(* The DOM: parseHtml's Document                                           *)

El(tag, attrs, text, kids) ==
  [tag |-> tag, attrs |-> attrs, text |-> text, kids |-> kids]
Text(t) == El("#text", <<>>, t, <<>>)
NoElem == El("<none>", <<>>, "", <<>>)
NoAttrs == <<>>

Matches(e, selector) == e.tag = selector

\* the elements below a list of nodes, in document order
RECURSIVE PreOrder(_)
PreOrder(nodes) ==
  IF nodes = <<>> THEN <<>>
  ELSE <<Head(nodes)>> \o PreOrder(Head(nodes).kids) \o PreOrder(Tail(nodes))

QuerySelectorAll(nodes, selector) ==
  SelectSeq(PreOrder(nodes), LAMBDA e : Matches(e, selector))

QuerySelector(nodes, selector) ==
  LET all == QuerySelectorAll(nodes, selector)
  IN IF all = <<>> THEN NoElem ELSE Head(all)

RECURSIVE TextContent(_)
TextContent(e) ==
  e.text \o ConcatStr([i \in 1..Len(e.kids) |-> TextContent(e.kids[i])])

HasAttribute(e, attr) == attr \in DOMAIN e.attrs
GetAttribute(e, attr) == IF HasAttribute(e, attr) THEN e.attrs[attr] ELSE Null

\* elem.remove() on every match
RECURSIVE RemoveAll(_, _)
RemoveAll(nodes, selector) ==
  IF nodes = <<>> THEN <<>>
  ELSE IF Matches(Head(nodes), selector) THEN RemoveAll(Tail(nodes), selector)
  ELSE <<[Head(nodes) EXCEPT !.kids = RemoveAll(@, selector)]>>
         \o RemoveAll(Tail(nodes), selector)

\* a `first` directive that removes like an `all` directive
RemoveFirstAsAll(nodes, selector) == RemoveAll(nodes, selector)

\* doc.querySelector(sel)?.remove(): the first match in document order
RECURSIVE RemoveFirst(_, _)
RemoveFirst(nodes, selector) ==
  IF nodes = <<>> THEN <<>>
  ELSE IF Matches(Head(nodes), selector) THEN Tail(nodes)
  ELSE IF QuerySelectorAll(Head(nodes).kids, selector) # <<>>
       THEN <<[Head(nodes) EXCEPT !.kids = RemoveFirst(@, selector)]>>
              \o Tail(nodes)
  ELSE <<Head(nodes)>> \o RemoveFirst(Tail(nodes), selector)

----------------------------------------------------------------------------
(* new URL(rawLink, baseURI).href                                          *)

AbsoluteLinks == {"https://shop.test/a%C3%A4.html"}
RelativeLinks == {"/foo?bar=42"}

Origin(baseURI) ==
  CASE baseURI = "http://example.test/x?q=foo" -> "http://example.test"
    [] OTHER -> TypeError

ResolveURL(rawLink, baseURI) ==
  IF rawLink \in AbsoluteLinks THEN rawLink
  ELSE IF rawLink \in RelativeLinks
       THEN IF IsThrow(Origin(baseURI)) THEN TypeError
            ELSE Origin(baseURI) \o rawLink
  ELSE TypeError

----------------------------------------------------------------------------
(* The transform registry and the selector evaluator                       *)

\* filterExact(text, allowed): the text if it is one of the allowed strings
FilterExact(value, allowed) == IF value \in allowed THEN value ELSE Null

\* a transform whose function returns nothing
ReturnsNothing(value) == Undefined

KnownTransforms == {"filterExact", "returnsNothing"}

\* lookupBuiltinTransform(name)(value, ...args)
ApplyTransform(name, value, stepArgs) ==
  IF name \notin KnownTransforms THEN BadPatternError
  ELSE IF name = "returnsNothing" THEN ReturnsNothing(value)
  ELSE FilterExact(value, stepArgs)

runSelector(item, selector, attr, baseURI) ==
  LET elem == IF selector # "" THEN QuerySelector(item.kids, selector)
              ELSE item
  IN IF elem = NoElem THEN Null
     ELSE IF attr = "textContent" THEN TextContent(elem)
     ELSE IF attr = "href"
          THEN LET rawLink == GetAttribute(elem, "href")
               IN IF rawLink \notin {Null, ""}
                  THEN ResolveURL(rawLink, baseURI) ELSE Null
     ELSE IF HasAttribute(elem, attr) THEN GetAttribute(elem, attr)
     ELSE Null

\* transform definitions: [isArray, steps], each step [isArray, name, args]
NoTransform == [isArray |-> TRUE, steps |-> <<>>]

\* a registry lookup that skips the names it does not know
RECURSIVE RunStepsSkipUnknown(_, _)
RunStepsSkipUnknown(tmpValue, steps) ==
  IF steps = <<>> THEN tmpValue
  ELSE IF ~Head(steps).isArray THEN BadPatternError
  ELSE IF Head(steps).name \notin KnownTransforms
       THEN RunStepsSkipUnknown(tmpValue, Tail(steps))
  ELSE LET next == ApplyTransform(Head(steps).name, tmpValue, Head(steps).args)
       IN IF IsThrow(next) THEN next
          ELSE RunStepsSkipUnknown(next, Tail(steps))

RECURSIVE RunSteps(_, _)
RunSteps(tmpValue, steps) ==
  IF steps = <<>> THEN tmpValue
  ELSE IF ~Head(steps).isArray THEN BadPatternError
  ELSE LET next == ApplyTransform(Head(steps).name, tmpValue, Head(steps).args)
       IN IF IsThrow(next) THEN next ELSE RunSteps(next, Tail(steps))

\* a chain that tests the value for null before it tests the definition
runTransformsNullFirst(value, transformSteps) ==
  IF IsThrow(value) THEN value
  ELSE IF value \in {Undefined, Null} THEN Null
  ELSE IF ~transformSteps.isArray THEN BadPatternError
  ELSE OrNull(RunSteps(value, transformSteps.steps))

runTransforms(value, transformSteps) ==
  IF IsThrow(value) THEN value
  ELSE IF ~transformSteps.isArray THEN BadPatternError
  ELSE IF value \in {Undefined, Null} THEN Null
  ELSE OrNull(RunSteps(value, transformSteps.steps))

\* a first-match loop in which an alternative wins only if its transformed
\* value is not null
RECURSIVE FirstMatchOfTransformed(_, _, _)
FirstMatchOfTransformed(rootItem, alternatives, baseURI) ==
  IF alternatives = <<>> THEN Null
  ELSE LET alt == Head(alternatives)
           match == OrNull(runSelector(rootItem, alt.select, alt.attr, baseURI))
           value == runTransforms(match, alt.transform)
       IN IF value # Null THEN value
          ELSE FirstMatchOfTransformed(rootItem, Tail(alternatives), baseURI)

\* the names runTransforms hands to lookupBuiltinTransform (line 73), in
\* the order of the calls
RECURSIVE LookedUpSteps(_, _)
LookedUpSteps(tmpValue, steps) ==
  IF steps = <<>> THEN <<>>
  ELSE IF ~Head(steps).isArray THEN <<>>
  ELSE LET next == ApplyTransform(Head(steps).name, tmpValue, Head(steps).args)
       IN <<Head(steps).name>>
            \o (IF IsThrow(next) THEN <<>> ELSE LookedUpSteps(next, Tail(steps)))

LookedUp(value, transformSteps) ==
  IF ~transformSteps.isArray THEN <<>>
  ELSE IF value \in {Undefined, Null} THEN <<>>
  ELSE LookedUpSteps(value, transformSteps.steps)

\* selector definitions: [hasFirstMatch, firstMatch, select, attr, transform]
RECURSIVE FirstMatchOf(_, _, _)
FirstMatchOf(rootItem, alternatives, baseURI) ==
  IF alternatives = <<>> THEN Null
  ELSE LET alt == Head(alternatives)
           match == OrNull(runSelector(rootItem, alt.select, alt.attr, baseURI))
       IN IF match # Null THEN runTransforms(match, alt.transform)
          ELSE FirstMatchOf(rootItem, Tail(alternatives), baseURI)

findFirstMatch(rootItem, selectorDef, baseURI) ==
  IF selectorDef.hasFirstMatch
  THEN FirstMatchOf(rootItem, selectorDef.firstMatch, baseURI)
  ELSE OrNull(runSelector(rootItem, selectorDef.select, selectorDef.attr,
                          baseURI))

----------------------------------------------------------------------------
(* SearchExtractor.extractMessages                                         *)
(*                                                                         *)
(* A rule is [prune, input, output]:                                       *)
(*   prune  : sequence of [kind: "first" | "all" | "bad", selector]        *)
(*   input  : sequence of [selector, kind: "first" | "all" | "bad",        *)
(*            fields: sequence of [key, def]]     (Object.entries order)   *)
(*   output : sequence of [action, fields, omitIfExistsAny, deduplicateBy] *)
(*            fields: sequence of [key, source, hasRequiredKeys,           *)
(*            requiredKeys, optional]; source "" when the field has none   *)

isPresent(x) == x # Null /\ x # Undefined /\ x # ""

\* a preprocessing that strips every p element, whatever the directives
PruneParagraphs(nodes, directives) ==
  [nodes |-> RemoveAll(nodes, "p"), err |-> ""]

\* the preprocess.prune loop: the document after it, and what it threw
RECURSIVE Prune(_, _)
Prune(nodes, directives) ==
  IF directives = <<>> THEN [nodes |-> nodes, err |-> ""]
  ELSE LET rule == Head(directives)
       IN IF rule.kind = "first"
          THEN Prune(RemoveFirst(nodes, rule.selector), Tail(directives))
          ELSE IF rule.kind = "all"
          THEN Prune(RemoveAll(nodes, rule.selector), Tail(directives))
          ELSE [nodes |-> nodes, err |-> BadPatternError]

FieldValue(item, def, baseURI) ==
  runTransforms(findFirstMatch(item, def, baseURI), def.transform)

\* an `all` walk that pushes only the values that are not null
EvalGroupSkipNull(nodes, selectorDef, baseURI) ==
  IF selectorDef.kind = "first"
  THEN LET item == QuerySelector(nodes, selectorDef.selector)
       IN IF item = NoElem THEN <<>>
          ELSE [i \in 1..Len(selectorDef.fields) |->
                 [key |-> selectorDef.fields[i].key,
                  value |-> FieldValue(item, selectorDef.fields[i].def,
                                       baseURI)]]
  ELSE IF selectorDef.kind = "all"
  THEN LET rootItems == QuerySelectorAll(nodes, selectorDef.selector)
       IN [i \in 1..Len(selectorDef.fields) |->
            [key |-> selectorDef.fields[i].key,
             value |-> SelectSeq(
                         [r \in 1..Len(rootItems) |->
                           FieldValue(rootItems[r], selectorDef.fields[i].def,
                                      baseURI)],
                         LAMBDA v : v # Null)]]
  ELSE <<>>

\* found[selector] after one iteration of the input loop: a sequence of
\* [key, value], the value a scalar ("first") or a sequence ("all")
EvalGroup(nodes, selectorDef, baseURI) ==
  IF selectorDef.kind = "first"
  THEN LET item == QuerySelector(nodes, selectorDef.selector)
       IN IF item = NoElem THEN <<>>
          ELSE [i \in 1..Len(selectorDef.fields) |->
                 [key |-> selectorDef.fields[i].key,
                  value |-> FieldValue(item, selectorDef.fields[i].def,
                                       baseURI)]]
  ELSE IF selectorDef.kind = "all"
  THEN LET rootItems == QuerySelectorAll(nodes, selectorDef.selector)
       IN [i \in 1..Len(selectorDef.fields) |->
            [key |-> selectorDef.fields[i].key,
             value |-> [r \in 1..Len(rootItems) |->
                         FieldValue(rootItems[r], selectorDef.fields[i].def,
                                    baseURI)]]]
  ELSE <<>>

\* what one iteration of the input loop throws ("" when nothing)
GroupThrow(selectorDef, group) ==
  IF selectorDef.kind = "first"
  THEN FirstThrow([i \in 1..Len(group) |-> group[i].value])
  ELSE IF selectorDef.kind = "all"
  THEN FirstThrow([i \in 1..Len(group) |-> FirstThrow(group[i].value)])
  ELSE BadPatternError

EvalInput(nodes, input, baseURI) ==
  LET found == [i \in 1..Len(input) |-> EvalGroup(nodes, input[i], baseURI)]
  IN [found |-> found,
      err |-> FirstThrow([i \in 1..Len(input) |->
                            GroupThrow(input[i], found[i])])]

\* the position of input[source], 0 when input has no such key
InputIndex(input, source) ==
  IF \E i \in 1..Len(input) : input[i].selector = source
  THEN CHOOSE i \in 1..Len(input) : input[i].selector = source
  ELSE 0

\* obj[key], Undefined when obj has no such key
Lookup(pairs, key) ==
  IF \E i \in 1..Len(pairs) : pairs[i].key = key
  THEN (pairs[CHOOSE i \in 1..Len(pairs) : pairs[i].key = key]).value
  ELSE Undefined

\* payload[key] = value: a new key is appended, an old one keeps its place
\* a payload that takes a new key in front of the older ones
PutFront(payload, key, isArray, value) ==
  LET entry == [key |-> key, isArray |-> isArray, value |-> value]
  IN IF \E i \in 1..Len(payload) : payload[i].key = key
     THEN [i \in 1..Len(payload) |->
            IF payload[i].key = key THEN entry ELSE payload[i]]
     ELSE <<entry>> \o payload

Put(payload, key, isArray, value) ==
  LET entry == [key |-> key, isArray |-> isArray, value |-> value]
  IN IF \E i \in 1..Len(payload) : payload[i].key = key
     THEN [i \in 1..Len(payload) |->
            IF payload[i].key = key THEN entry ELSE payload[i]]
     ELSE Append(payload, entry)

Context(query, url, ctry) ==
  <<[key |-> "q", value |-> OrNull(query)],
    [key |-> "qurl", value |-> url],
    [key |-> "ctry", value |-> ctry]>>

\* case 2: the entries zipped from the arrays of an "all" input
MergedResults(selectorDef, group) ==
  LET innerKeys == MapKeys(selectorDef.fields)
      n == IF group = <<>> THEN 0 ELSE Len(group[1].value)
  IN [idx \in 1..n |->
       [k \in 1..Len(innerKeys) |->
         [key |-> innerKeys[k], value |-> OrNull(group[k].value[idx])]]]

CleanedResults(selectorDef, group, field) ==
  LET required == IF field.hasRequiredKeys THEN field.requiredKeys
                  ELSE MapKeys(selectorDef.fields)
      allFieldsPresent(entry) ==
        \A x \in 1..Len(required) : isPresent(Lookup(entry, required[x]))
  IN SelectSeq(MergedResults(selectorDef, group), allFieldsPresent)

\* a spread that numbers the entries from "1"
SpreadFromOne(cleanedResults) ==
  [i \in 1..Len(cleanedResults) |->
    [key |-> ToString(i), value |-> cleanedResults[i]]]

\* { ...cleanedResults }, line 297: the own index keys of the array, as
\* strings in ascending order, each with its entry
Spread(cleanedResults) ==
  [i \in 1..Len(cleanedResults) |->
    [key |-> ToString(i - 1), value |-> cleanedResults[i]]]

\* case 1, line 273: a missing single value discards the action
SingleValueKept(field, value) == FALSE
SingleValueDiscards(field, value) == ~field.optional /\ ~isPresent(value)

\* case 2, line 294: no complete entry discards the action
ArrayKept(field, cleanedResults) == FALSE
ArrayDiscards(field, cleanedResults) ==
  cleanedResults = <<>> /\ ~field.optional

\* a context field that is written whatever its value
ContextSkipsNever(field, value) == FALSE

\* case 3, line 305: a missing context value leaves the key out
ContextSkips(field, value) == ~field.optional /\ ~isPresent(value)

\* the loop over schema.fields: "ok" with the payload, "skip" for
\* `continue nextaction`, "throw" with the error
RECURSIVE BuildPayload(_, _, _, _, _)
BuildPayload(fields, payload, input, found, context) ==
  IF fields = <<>> THEN [status |-> "ok", payload |-> payload, err |-> ""]
  ELSE
    LET field == Head(fields)
        idx == InputIndex(input, field.source)
    IN IF field.source # ""
       THEN IF idx = 0
            THEN [status |-> "throw", payload |-> payload,
                  err |-> BadPatternError]
            ELSE IF input[idx].kind = "first"
            THEN IF SingleValueDiscards(field, Lookup(found[idx], field.key))
                 THEN [status |-> "skip", payload |-> payload, err |-> ""]
                 ELSE BuildPayload(Tail(fields),
                        Put(payload, field.key, FALSE,
                            OrNull(Lookup(found[idx], field.key))),
                        input, found, context)
            ELSE IF input[idx].kind = "all"
            THEN LET cleanedResults ==
                       CleanedResults(input[idx], found[idx], field)
                 IN IF ArrayDiscards(field, cleanedResults)
                    THEN [status |-> "skip", payload |-> payload, err |-> ""]
                    ELSE BuildPayload(Tail(fields),
                           Put(payload, field.key, TRUE,
                               Spread(cleanedResults)),
                           input, found, context)
            ELSE [status |-> "throw", payload |-> payload,
                  err |-> BadPatternError]
       ELSE IF ContextSkips(field, Lookup(context, field.key))
            THEN BuildPayload(Tail(fields), payload, input, found, context)
            ELSE BuildPayload(Tail(fields),
                   Put(payload, field.key, FALSE,
                       OrNull(Lookup(context, field.key))),
                   input, found, context)

\* a loop that lets the random draw decide the de-duplication tag as well
RECURSIVE AssembleRandomTag(_, _, _, _, _, _)
AssembleRandomTag(output, nonces, messages, input, found, context) ==
  IF output = <<>> THEN [messages |-> messages, err |-> ""]
  ELSE
    LET schema == Head(output)
        built == BuildPayload(schema.fields, <<>>, input, found, context)
        body == [action |-> schema.action, payload |-> built.payload,
                 ver |-> 4, antiDuplicates |-> Head(nonces)]
    IN IF built.status = "throw" THEN [messages |-> <<>>, err |-> built.err]
       ELSE IF built.status = "skip"
       THEN AssembleRandomTag(Tail(output), Tail(nonces), messages,
                              input, found, context)
       ELSE AssembleRandomTag(Tail(output), Tail(nonces),
                              Append(messages,
                                     [body |-> body,
                                      deduplicateBy |-> Head(nonces)]),
                              input, found, context)

\* the nextaction loop: the messages pushed so far, and what it threw
RECURSIVE Assemble(_, _, _, _, _, _)
Assemble(output, nonces, messages, input, found, context) ==
  IF output = <<>> THEN [messages |-> messages, err |-> ""]
  ELSE
    LET schema == Head(output)
        built == BuildPayload(schema.fields, <<>>, input, found, context)
        body == [action |-> schema.action, payload |-> built.payload,
                 ver |-> 4, antiDuplicates |-> Head(nonces)]
    IN IF built.status = "throw" THEN [messages |-> <<>>, err |-> built.err]
       ELSE IF built.status = "skip"
       THEN Assemble(Tail(output), Tail(nonces), messages,
                     input, found, context)
       ELSE Assemble(Tail(output), Tail(nonces),
                     Append(messages, [body |-> body,
                                       deduplicateBy |-> schema.deduplicateBy]),
                     input, found, context)

SchemaOf(output, action) ==
  output[CHOOSE i \in 1..Len(output) : output[i].action = action]

\* a filter that removes in place: a message is compared with the messages
\* kept so far and those not yet visited
RECURSIVE FilterKept(_, _, _)
FilterKept(kept, rest, output) ==
  IF rest = <<>> THEN kept
  ELSE LET msg == Head(rest)
           omit == SchemaOf(output, msg.body.action).omitIfExistsAny
           others == kept \o rest
           isRedundant ==
             \E i \in 1..Len(omit) :
               \E x \in 1..Len(others) : others[x].body.action = omit[i]
       IN FilterKept(IF isRedundant THEN kept ELSE Append(kept, msg),
                     Tail(rest), output)

FilterRedundantInPlace(messages, output) == FilterKept(<<>>, messages, output)

\* messages.filter(...): drop what omitIfExistsAny marks as redundant
FilterRedundant(messages, output) ==
  LET isRedundant(msg) ==
        \E i \in 1..Len(SchemaOf(output, msg.body.action).omitIfExistsAny) :
          \E x \in 1..Len(messages) :
            messages[x].body.action
              = SchemaOf(output, msg.body.action).omitIfExistsAny[i]
  IN SelectSeq(messages, LAMBDA msg : ~isRedundant(msg))

\* extractMessages below the category lookup: preprocess, input walk,
\* assembly and the redundancy filter
ExtractRule(rule, nodes, query, url, ctry, nonces) ==
  LET pruned == Prune(nodes, rule.prune)
      walked == EvalInput(pruned.nodes, rule.input, url)
      assembled == Assemble(rule.output, nonces, <<>>, rule.input,
                            walked.found, Context(query, url, ctry))
  IN IF pruned.err # ""
     THEN [err |-> pruned.err, msgs |-> <<>>, doc |-> pruned.nodes]
     ELSE IF walked.err # ""
     THEN [err |-> walked.err, msgs |-> <<>>, doc |-> pruned.nodes]
     ELSE IF assembled.err # ""
     THEN [err |-> assembled.err, msgs |-> <<>>, doc |-> pruned.nodes]
     ELSE [err |-> "",
           msgs |-> FilterRedundant(assembled.messages, rule.output),
           doc |-> pruned.nodes]

\* a missing guard: destructuring rules[category] = undefined throws
ExtractMessagesNoGuard(rules, nodes, query, category, url, ctry, nonces) ==
  IF category \notin DOMAIN rules
  THEN [err |-> TypeError, msgs |-> <<>>, doc |-> nodes]
  ELSE ExtractRule(rules[category], nodes, query, url, ctry, nonces)

\* extractMessages({doc, query, category, doublefetchRequest}): what it
\* returns or throws, and the document it leaves behind
ExtractMessages(rules, nodes, query, category, url, ctry, nonces) ==
  IF category \notin DOMAIN rules
  THEN [err |-> "", msgs |-> <<>>, doc |-> nodes]
  ELSE ExtractRule(rules[category], nodes, query, url, ctry, nonces)

----------------------------------------------------------------------------
(* Inputs of extractMessages: documents, rules, call arguments             *)

MaxFields == 2     \* fields per output schema of the generated action
MaxCalls == 1      \* extractMessages calls on one document
RandomRange == 10000000

Nonces == {0, RandomRange - 1}

BaseURL == "http://example.test/x?q=foo"

Sel(select, attr) ==
  [hasFirstMatch |-> FALSE, firstMatch |-> <<>>, select |-> select,
   attr |-> attr, transform |-> NoTransform]

Anchor(href, text) == El("a", "href" :> href, text, <<>>)

DocEmpty == <<>>
DocDiv == <<El("div", "bar" :> "Some text", "", <<Text("hello")>>)>>
DocList ==
  <<El("div", NoAttrs, "", <<>>),
    El("li", NoAttrs, "", <<Anchor("/foo?bar=42", "one")>>),
    El("li", NoAttrs, "", <<Text("two")>>)>>
DocFull ==
  <<El("div", NoAttrs, "", <<Text("he"), El("p", NoAttrs, "X", <<>>),
                              Text("llo")>>),
    El("li", NoAttrs, "",
       <<Anchor("https://shop.test/a%C3%A4.html", "shop")>>)>>

Docs == {DocEmpty, DocList, DocFull}

InputDiv ==
  [selector |-> "div", kind |-> "first",
   fields |-> <<[key |-> "title", def |-> Sel("", "textContent")],
                [key |-> "bar", def |-> Sel("", "bar")]>>]
InputList ==
  [selector |-> "li", kind |-> "all",
   fields |-> <<[key |-> "name", def |-> Sel("a", "textContent")],
                [key |-> "url", def |-> Sel("a", "href")]>>]
InputUnknownTransform ==
  [selector |-> "p", kind |-> "first",
   fields |-> <<[key |-> "t",
                 def |-> [Sel("", "textContent") EXCEPT !.transform =
                   [isArray |-> TRUE,
                    steps |-> <<[isArray |-> TRUE,
                                 name |-> "thisBuiltinDoesNotExist",
                                 args |-> {}]>>]]]>>]

Inputs == {<<InputDiv, InputList>>, <<InputDiv, InputList, InputUnknownTransform>>}

Field(key, source, optional) ==
  [key |-> key, source |-> source, hasRequiredKeys |-> FALSE,
   requiredKeys |-> <<>>, optional |-> optional]

FieldPool ==
  {Field("title", "div", FALSE), Field("title", "div", TRUE),
   Field("q", "", FALSE), Field("title", "", TRUE),
   Field("items", "li", FALSE),
   [Field("items", "li", TRUE) EXCEPT !.hasRequiredKeys = TRUE,
                                      !.requiredKeys = <<"name">>],
   Field("x", "nope", FALSE)}

FieldSeqs == UNION {[1..n -> FieldPool] : n \in 0..MaxFields}

Schema(action, fields, omit) ==
  [action |-> action, fields |-> fields, omitIfExistsAny |-> omit,
   deduplicateBy |-> Undefined]

OutputTails ==
  {<<>>,
   <<Schema("b", <<Field("q", "", TRUE), Field("ctry", "", FALSE)>>, <<"a">>)>>,
   <<Schema("c", <<Field("title", "div", FALSE)>>, <<"nonexistent">>)>>}

Outputs ==
  {<<Schema("a", fs, <<>>)>> \o tail : fs \in FieldSeqs, tail \in OutputTails}

Rules ==
  {[prune |-> <<>>, input |-> i, output |-> o] : i \in Inputs, o \in Outputs}

Snapshots == {<<>>} \cup {("cat" :> r) : r \in Rules}

ExtractArgs ==
  [query : {"foo", ""}, category : {"cat", "other"},
   url : {BaseURL}, ctry : {"de"}]

NoResult == [err |-> "", msgs |-> <<>>, doc |-> <<>>]

\* no TokenTelemetry constructed
TelemetryIdle ==
  /\ options = <<>>
  /\ day = 0
  /\ now = 0
  /\ today = 0
  /\ cache = <<>>
  /\ db = <<>>
  /\ filteredTokensBatch = <<>>
  /\ batch = <<>>
  /\ running = <<>>
  /\ telemetry = <<>>
  /\ ticks = <<>>
  /\ requests = 0
  /\ state = <<>>
  /\ ret = ""

JobIdle ==
  /\ store = {}
  /\ pc = <<>>
  /\ job = <<>>
  /\ jobDoc = <<>>
  /\ docState = <<>>
  /\ pending = <<>>
  /\ outcome = <<>>
  /\ log = <<>>

InitExtract ==
  /\ patterns \in Snapshots
  /\ doc \in Docs
  /\ args \in ExtractArgs
  /\ calls = 0
  /\ result = NoResult
  /\ JobIdle
  /\ TelemetryIdle

\* one synchronous call extractMessages({doc, query, category, ...})
ExtractStep ==
  /\ \E nonces \in [1..(IF args.category \in DOMAIN patterns
                        THEN Len(patterns[args.category].output) ELSE 0)
                    -> Nonces] :
       LET r == ExtractMessages(patterns, doc, args.query, args.category,
                                args.url, args.ctry, nonces)
       IN /\ result' = r
          /\ doc' = r.doc
  /\ calls' = calls + 1
  /\ UNCHANGED <<patterns, args>>
  /\ UNCHANGED jobVars
  /\ UNCHANGED telemetryVars

CallExtract ==
  /\ calls < MaxCalls
  /\ ExtractStep

NextExtract == CallExtract

SpecExtract == InitExtract /\ [][NextExtract]_vars

\* rules whose three actions list each other (and themselves) in
\* omitIfExistsAny
MaxOmit == 1       \* entries of one omitIfExistsAny list

FilterActions == <<"a", "b", "c">>

OmitLists ==
  {SelectSeq(FilterActions, LAMBDA x : x \in S) :
     S \in {T \in SUBSET {"a", "b", "c"} : Cardinality(T) <= MaxOmit}}

FilterFields ==
  {<<Field("ctry", "", FALSE)>>, <<Field("title", "div", FALSE)>>}

FilterOutputs ==
  {<<Schema("a", fa, oa), Schema("b", <<Field("ctry", "", FALSE)>>, ob),
     Schema("c", fc, oc)>> :
     fa \in FilterFields, fc \in FilterFields,
     oa \in OmitLists, ob \in OmitLists, oc \in OmitLists}

FilterRules ==
  {[prune |-> <<>>, input |-> <<InputDiv, InputList>>, output |-> o] :
     o \in FilterOutputs}

\* rules with preprocess.prune directives
MaxPrune == 2      \* directives of one prune list

\* <div>1<p>X</p>2<p>3</p>4<div>X</div><div>X</div>5<div>X</div>6</div>; the
\* inner divs, which the selector "div > div" tells apart from the outer
\* one, carry a tag of their own
DocScenario ==
  <<El("div", NoAttrs, "",
       <<Text("1"), El("p", NoAttrs, "X", <<>>), Text("2"),
         El("p", NoAttrs, "3", <<>>), Text("4"),
         El("span", NoAttrs, "X", <<>>), El("span", NoAttrs, "X", <<>>),
         Text("5"), El("span", NoAttrs, "X", <<>>), Text("6")>>)>>

PruneDirectives ==
  [kind : {"first", "all"}, selector : {"p", "span", "li"}]
    \cup {[kind |-> "bad", selector |-> "p"]}

PruneLists == UNION {[1..n -> PruneDirectives] : n \in 0..MaxPrune}

PruneRules ==
  {[prune |-> pr, input |-> <<InputDiv, InputList>>,
    output |-> <<Schema("a", <<Field("title", "div", TRUE),
                               Field("items", "li", TRUE)>>, <<>>)>>] :
     pr \in PruneLists}

InitPrune ==
  /\ patterns \in {("cat" :> r) : r \in PruneRules}
  /\ doc \in {DocScenario, DocList, DocFull}
  /\ args = [query |-> "foo", category |-> "cat", url |-> BaseURL,
             ctry |-> "de"]
  /\ calls = 0
  /\ result = NoResult
  /\ JobIdle
  /\ TelemetryIdle

\* a further call extractMessages on the document object of the calls
\* before it
MaxRepeats == 1    \* further calls on one document

RepeatExtract ==
  /\ calls >= MaxCalls
  /\ calls < MaxCalls + MaxRepeats
  /\ ExtractStep

NextPrune == CallExtract \/ RepeatExtract

SpecPrune == InitPrune /\ [][NextPrune]_vars

InitFilter ==
  /\ patterns \in {("cat" :> r) : r \in FilterRules}
  /\ doc \in {DocEmpty, DocFull}
  /\ args = [query |-> "foo", category |-> "cat", url |-> BaseURL,
             ctry |-> "de"]
  /\ calls = 0
  /\ result = NoResult
  /\ JobIdle
  /\ TelemetryIdle

SpecFilter == InitFilter /\ [][NextExtract]_vars

\* rules that merge the arrays of an `all` group, on result lists whose
\* items have a link with text and target, with one of them, or no link
MaxItems == 2      \* li elements of a result list

ItemKinds ==
  {El("li", NoAttrs, "", <<Anchor("/foo?bar=42", "one")>>),
   El("li", NoAttrs, "", <<Anchor("", "no target")>>),
   El("li", NoAttrs, "", <<Anchor("https://shop.test/a%C3%A4.html", "")>>),
   El("li", NoAttrs, "", <<Text("two")>>)}

MergeDocs == UNION {[1..n -> ItemKinds] : n \in 0..MaxItems}

MergeFields ==
  {Field("items", "li", opt) : opt \in BOOLEAN}
    \cup {[Field("items", "li", opt) EXCEPT !.hasRequiredKeys = TRUE,
                                           !.requiredKeys = req] :
            opt \in BOOLEAN,
            req \in {<<>>, <<"name">>, <<"url">>, <<"url", "name">>,
                     <<"name", "rank">>}}

MergeRules ==
  {[prune |-> <<>>, input |-> <<InputList>>,
    output |-> <<Schema("a", <<Field("q", "", TRUE), f>>, <<>>)>>] :
     f \in MergeFields}

InitMerge ==
  /\ patterns \in {("cat" :> r) : r \in MergeRules}
  /\ doc \in MergeDocs
  /\ args = [query |-> "foo", category |-> "cat", url |-> BaseURL,
             ctry |-> "de"]
  /\ calls = 0
  /\ result = NoResult
  /\ JobIdle
  /\ TelemetryIdle

SpecMerge == InitMerge /\ [][NextExtract]_vars

\* rules whose fields are first-match definitions
MaxAlternatives == 2   \* alternatives of one firstMatch list

Step(name, stepArgs) == [isArray |-> TRUE, name |-> name, args |-> stepArgs]
Steps(steps) == [isArray |-> TRUE, steps |-> steps]

Alt(select, attr, transform) ==
  [select |-> select, attr |-> attr, transform |-> transform]

\* the link target; the link text if it is "one"; the text of the item
\* through a transform the registry does not have; a selector without match
Alternatives ==
  {Alt("a", "href", NoTransform),
   Alt("a", "textContent", Steps(<<Step("filterExact", {"one"})>>)),
   Alt("", "textContent", Steps(<<Step("thisBuiltinDoesNotExist", {})>>)),
   Alt("p", "textContent", NoTransform)}

FirstMatchDefs ==
  {[hasFirstMatch |-> TRUE, firstMatch |-> alts, select |-> Undefined,
    attr |-> Undefined, transform |-> NoTransform] :
     alts \in UNION {[1..n -> Alternatives] : n \in 0..MaxAlternatives}}

FirstMatchRules ==
  {[prune |-> <<>>,
    input |-> <<[selector |-> "li", kind |-> "all",
                 fields |-> <<[key |-> "v", def |-> def]>>]>>,
    output |-> <<Schema("a",
                   <<[Field("items", "li", TRUE) EXCEPT
                        !.hasRequiredKeys = TRUE, !.requiredKeys = <<>>]>>,
                   <<>>)>>] :
     def \in FirstMatchDefs}
  \cup
  {[prune |-> <<>>,
    input |-> <<[selector |-> "li", kind |-> "first",
                 fields |-> <<[key |-> "v", def |-> def]>>]>>,
    output |-> <<Schema("a", <<Field("v", "li", TRUE)>>, <<>>)>>] :
     def \in FirstMatchDefs}

InitFirstMatch ==
  /\ patterns \in {("cat" :> r) : r \in FirstMatchRules}
  /\ doc \in MergeDocs
  /\ args = [query |-> "foo", category |-> "cat", url |-> BaseURL,
             ctry |-> "de"]
  /\ calls = 0
  /\ result = NoResult
  /\ JobIdle
  /\ TelemetryIdle

SpecFirstMatch == InitFirstMatch /\ [][NextExtract]_vars

\* runTransforms called on its own: args is [value, transformSteps] and
\* result [err, value, lookups]
MaxSteps == 2      \* entries of one transform chain

TransformValues == {Null, Undefined, "", "one", "two"}

\* a step that is no array (a bare transform name)
BareStep(name) == [isArray |-> FALSE, name |-> name, args |-> {}]

StepPool ==
  {Step("filterExact", {"one"}), Step("returnsNothing", {}),
   Step("thisBuiltinDoesNotExist", {}), BareStep("filterExact")}

TransformChains ==
  [isArray : BOOLEAN,
   steps : UNION {[1..n -> StepPool] : n \in 0..MaxSteps}]

InitTransforms ==
  /\ patterns = <<>>
  /\ doc = <<>>
  /\ args \in [value : TransformValues, transformSteps : TransformChains]
  /\ calls = 0
  /\ result = [err |-> "", value |-> Undefined, lookups |-> <<>>]
  /\ JobIdle
  /\ TelemetryIdle

\* one call runTransforms(value, transformSteps)
CallTransforms ==
  /\ calls = 0
  /\ LET r == runTransforms(args.value, args.transformSteps)
     IN result' = [err |-> IF IsThrow(r) THEN r ELSE "",
                   value |-> IF IsThrow(r) THEN Undefined ELSE r,
                   lookups |-> LookedUp(args.value, args.transformSteps)]
  /\ calls' = calls + 1
  /\ UNCHANGED <<patterns, doc, args>>
  /\ UNCHANGED jobVars
  /\ UNCHANGED telemetryVars

NextTransforms == CallTransforms

SpecTransforms == InitTransforms /\ [][NextTransforms]_vars

----------------------------------------------------------------------------
(* SearchExtractor.runJob and its collaborators                            *)

NumJobs == 2       \* runJob invocations

Jobs == 1..NumJobs

\* String.prototype.trim on a sequence of characters
IsSpace(c) == c \in {" "}

RECURSIVE TrimStart(_)
TrimStart(chars) ==
  IF chars # <<>> /\ IsSpace(Head(chars)) THEN TrimStart(Tail(chars))
  ELSE chars

RECURSIVE TrimEnd(_)
TrimEnd(chars) ==
  IF chars # <<>> /\ IsSpace(chars[Len(chars)])
  THEN TrimEnd(SubSeq(chars, 1, Len(chars) - 1))
  ELSE chars

Trim(chars) == TrimEnd(TrimStart(chars))

\* fastHash(text, {truncate: true}), taken to be free of collisions
FastHash(text) == text

\* a fingerprint of the trimmed query alone
doublefetchQueryHashNoCategory(query, category) ==
  FastHash("dfq:" \o ":" \o ConcatStr(Trim(query)))

doublefetchQueryHashNoTrim(query, category) ==
  FastHash("dfq:" \o category \o ":" \o ConcatStr(query))

doublefetchQueryHash(query, category) ==
  FastHash("dfq:" \o category \o ":" \o ConcatStr(Trim(query)))

\* sanitizer.checkSuspiciousQuery(query).accept
SuspiciousQueries == {<<"x", "x">>}
QueryAccepted(query) == query \notin SuspiciousQueries

\* sanitizer.getSafeCountryCode()
SafeCountryCode == "--"

\* line 122: if (!queryCheck.accept) return discard(...)
DropsSuspiciousNever(accept) == FALSE
DropsSuspicious(accept) == ~accept

\* line 132: if (!wasAdded) return discard(...)
RecentlySeenNever(wasAdded) == FALSE
RecentlySeen(wasAdded) == ~wasAdded

\* lines 150-151: await delete(queryHash).catch(() => {}); throw e
StorageError == "<StorageError>"
ThrownAfterDeleteUncaught(caught, deleteOk) ==
  IF deleteOk THEN caught ELSE StorageError
ThrownAfterDelete(caught, deleteOk) == caught

\* lines 164-174: the catch block around extractMessages logs and
\* discards; it does not touch the store
StoreAfterExtractFailureReleased(hashes, queryHash) == hashes \ {queryHash}
StoreAfterExtractFailure(hashes, queryHash) == hashes

\* what the job scheduler may pass to runJob
JobQueries == {<<"f">>, <<" ", "f", " ">>, <<"x", "x">>}
JobCategories == {"cat", "old"}
JobArgs == [query : JobQueries, category : JobCategories, url : {BaseURL}]
NoJob == [query |-> <<>>, category |-> "", url |-> ""]

\* the rules snapshot while jobs run: "cat" extracts the title of the
\* page, "old" names a transform this client does not have
JobPatterns ==
  ("cat" :> [prune |-> <<>>, input |-> <<InputDiv>>,
             output |-> <<Schema("a", <<Field("title", "div", FALSE),
                                        Field("q", "", FALSE)>>, <<>>)>>])
  @@ ("old" :> [prune |-> <<>>, input |-> <<InputUnknownTransform>>,
                output |-> <<Schema("a", <<Field("t", "p", FALSE)>>, <<>>)>>])

JobDocs == {DocEmpty, DocDiv, DocFull}
FetchErrors == {NetworkError, PermanentHttpError}

NoOutcome ==
  [kind |-> "none", messages |-> <<>>, reason |-> Undefined, error |-> ""]

\* function discard(reason): { messages: [], reason }
Discard(reason) ==
  [kind |-> "returned", messages |-> <<>>, reason |-> reason, error |-> ""]

Init ==
  /\ patterns = JobPatterns
  /\ doc = <<>>
  /\ args = [query |-> Undefined, category |-> "", url |-> BaseURL,
             ctry |-> SafeCountryCode]
  /\ calls = 0
  /\ result = NoResult
  /\ store = {}
  /\ pc = [j \in Jobs |-> "new"]
  /\ job = [j \in Jobs |-> NoJob]
  /\ jobDoc = [j \in Jobs |-> <<>>]
  /\ docState = [j \in Jobs |-> "none"]
  /\ pending = [j \in Jobs |-> ""]
  /\ outcome = [j \in Jobs |-> NoOutcome]
  /\ log = [j \in Jobs |-> <<>>]
  /\ TelemetryIdle

\* runJob from its call to the first await that suspends it for long:
\* lines 121-143
StartJob(j, a) ==
  /\ pc[j] = "new"
  /\ job' = [job EXCEPT ![j] = a]
  /\ UNCHANGED <<jobDoc, docState, pending>>
  /\ UNCHANGED extractVars
  /\ UNCHANGED telemetryVars
  /\ IF DropsSuspicious(QueryAccepted(a.query))
     THEN /\ outcome' = [outcome EXCEPT ![j] = Discard("suspicious query")]
          /\ pc' = [pc EXCEPT ![j] = "done"]
          /\ log' = [log EXCEPT ![j] = <<"checkSuspiciousQuery">>]
          /\ UNCHANGED store
     ELSE LET queryHash == doublefetchQueryHash(a.query, a.category)
              wasAdded == queryHash \notin store
          IN /\ store' = store \cup {queryHash}
             /\ IF RecentlySeen(wasAdded)
                THEN /\ outcome' =
                          [outcome EXCEPT ![j] = Discard("recently seen")]
                     /\ pc' = [pc EXCEPT ![j] = "done"]
                     /\ log' = [log EXCEPT ![j] =
                          <<"checkSuspiciousQuery",
                            IF wasAdded THEN "add:true" ELSE "add:false">>]
                ELSE /\ pc' = [pc EXCEPT ![j] = "fetching"]
                     /\ log' = [log EXCEPT ![j] =
                          <<"checkSuspiciousQuery",
                            IF wasAdded THEN "add:true" ELSE "add:false",
                            "anonymousHttpGet">>]
                     /\ UNCHANGED outcome

\* the catch block of lines 145-150, up to the call of delete
CatchFetchError(j, e) ==
  /\ pending' = [pending EXCEPT ![j] = e]
  /\ pc' = [pc EXCEPT ![j] = "deleting"]
  /\ log' = [log EXCEPT ![j] = @ \o <<e, "delete">>]
  /\ UNCHANGED <<store, job, jobDoc, docState, outcome>>
  /\ UNCHANGED extractVars
  /\ UNCHANGED telemetryVars

\* anonymousHttpGet resolves with the page: parseHtml is called (line 144)
FetchResolves(j) ==
  /\ pc[j] = "fetching"
  /\ pc' = [pc EXCEPT ![j] = "parsing"]
  /\ log' = [log EXCEPT ![j] = Append(@, "parseHtml")]
  /\ UNCHANGED <<store, job, jobDoc, docState, pending, outcome>>
  /\ UNCHANGED extractVars
  /\ UNCHANGED telemetryVars

\* anonymousHttpGet rejects (network failure, permanent HTTP error, 429)
FetchRejects(j, e) ==
  /\ pc[j] = "fetching"
  /\ CatchFetchError(j, e)

\* parseHtml rejects
ParseRejects(j) ==
  /\ pc[j] = "parsing"
  /\ CatchFetchError(j, ParseError)

\* persistedHashes.delete settles, then `throw e` (lines 150-151)
DeleteSettles(j, deleteOk) ==
  /\ pc[j] = "deleting"
  /\ store' = IF deleteOk
              THEN store \ {doublefetchQueryHash(job[j].query,
                                                 job[j].category)}
              ELSE store
  /\ outcome' = [outcome EXCEPT ![j] =
       [kind |-> "threw", messages |-> <<>>, reason |-> Undefined,
        error |-> ThrownAfterDelete(pending[j], deleteOk)]]
  /\ pc' = [pc EXCEPT ![j] = "done"]
  /\ log' = [log EXCEPT ![j] =
       Append(@, IF deleteOk THEN "delete:ok" ELSE "delete:failed")]
  /\ UNCHANGED <<job, jobDoc, docState, pending>>
  /\ UNCHANGED extractVars
  /\ UNCHANGED telemetryVars

\* parseHtml resolves with the document; the rest of runJob runs without
\* suspension (lines 153-174)
ParseResolves(j, d, nonces) ==
  /\ pc[j] = "parsing"
  /\ LET r == ExtractMessages(patterns, d, ConcatStr(job[j].query),
                              job[j].category, job[j].url,
                              SafeCountryCode, nonces)
     IN /\ jobDoc' = [jobDoc EXCEPT ![j] = r.doc]
        /\ docState' = [docState EXCEPT ![j] = "open"]
        /\ IF r.err # ""
           THEN /\ outcome' =
                     [outcome EXCEPT ![j] = Discard("unsupported pattern")]
                /\ log' = [log EXCEPT ![j] =
                     @ \o <<"extractMessages", "extractMessages:threw">>]
                /\ store' = StoreAfterExtractFailure(store,
                              doublefetchQueryHash(job[j].query,
                                                   job[j].category))
           ELSE /\ outcome' = [outcome EXCEPT ![j] =
                     IF r.msgs = <<>> THEN Discard("no content found")
                     ELSE [kind |-> "returned", messages |-> r.msgs,
                           reason |-> Undefined, error |-> ""]]
                /\ log' = [log EXCEPT ![j] = Append(@, "extractMessages")]
                /\ UNCHANGED store
  /\ pc' = [pc EXCEPT ![j] = "done"]
  /\ UNCHANGED <<job, pending>>
  /\ UNCHANGED extractVars
  /\ UNCHANGED telemetryVars

Next ==
  \E j \in Jobs :
    \/ \E a \in JobArgs : StartJob(j, a)
    \/ FetchResolves(j)
    \/ \E e \in FetchErrors : FetchRejects(j, e)
    \/ ParseRejects(j)
    \/ \E deleteOk \in BOOLEAN : DeleteSettles(j, deleteOk)
    \/ \E d \in JobDocs :
         \E nonces \in [1..(IF job[j].category \in DOMAIN patterns
                            THEN Len(patterns[job[j].category].output)
                            ELSE 0) -> Nonces] :
           ParseResolves(j, d, nonces)

Spec == Init /\ [][Next]_vars

----------------------------------------------------------------------------
(* token-telemetry.js: CachedEntryPipeline, TokenPipeline, KeyPipeline     *)
(*                                                                         *)
(* A day (trustedClock.getTimeAsYYYYMMDD()) is a positive integer, the     *)
(* empty lastSent '' of a database row is 0 and the missing lastSent of a  *)
(* new cache entry is -1: the order of the source's strings is kept.  A    *)
(* Map or a Set is a function or a set; where the source iterates one, the *)
(* model follows a fixed order of its keys.  Of the two pipelines,         *)
(* "tokens" is the TokenPipeline and "keys" the KeyPipeline.               *)

DEFAULT_CONFIG ==
  [TOKEN_BATCH_INTERVAL |-> 50000, TOKEN_BATCH_SIZE |-> 2,
   TOKEN_MESSAGE_SIZE |-> 10, KEY_BATCH_INTERVAL |-> 80000,
   KEY_BATCH_SIZE |-> 10, CLEAN_INTERVAL |-> 240000,
   TOKEN_BUFFER_TIME |-> 10000, NEW_ENTRY_MIN_AGE |-> 60 * 60 * 1000,
   MIN_COUNT |-> 1, LOW_COUNT_DISCARD_AGE |-> 1000 * 60 * 60 * 24 * 3]

Without(s, i) == SubSeq(s, 1, i - 1) \o SubSeq(s, i + 1, Len(s))

Pipes == {"tokens", "keys"}
PrimaryKey(pipe) == IF pipe = "tokens" THEN "token" ELSE "hash"

NoLastSent == -1   \* entry.lastSent === undefined
EmptyLastSent == 0 \* lastSent: ''

Min(a, b) == IF a < b THEN a ELSE b
Max(a, b) == IF a > b THEN a ELSE b

MapPut(m, k, v) ==
  [x \in (DOMAIN m) \cup {k} |-> IF x = k THEN v ELSE m[x]]
MapDelete(m, k) == [x \in (DOMAIN m) \ {k} |-> m[x]]
InOrder(order, keys) == SelectSeq(order, LAMBDA x : x \in keys)
SeqSet(s) == {s[i] : i \in 1..Len(s)}

\* md5(text) and truncatedHash(text) of ../../md5
Md5(text) == "md5:" \o text
TruncatedHash(text) == "h16:" \o text

\* a && b
JsAnd(a, b) == IF a \in {"false", Undefined, Null, ""} THEN a ELSE b

\* the order in which the model walks keys, sites and tokens
KeyOrder ==
  <<Md5("v1"), Md5("v2"),
    TruncatedHash("tp.test") \o ":" \o Md5("k1"),
    TruncatedHash("tp.test") \o ":" \o Md5("k2"),
    Undefined, Undefined \o ":" \o Undefined>>
SiteOrder == <<TruncatedHash("s1.test"), TruncatedHash("s2.test"), Undefined>>

newEntry(pipe, created) ==
  IF pipe = "tokens"
  THEN [created |-> created, sites |-> {}, trackers |-> {}, safe |-> "true",
        dirty |-> TRUE, count |-> 0, lastSent |-> NoLastSent]
  ELSE [created |-> created, dirty |-> TRUE, sitesTokens |-> <<>>,
        count |-> 0, lastSent |-> NoLastSent, key |-> Undefined,
        tracker |-> Undefined]

\* this.cache.get(key) of the DefaultMap: the map with the entry in it
CacheGet(m, pipe, key, created) ==
  IF key \in DOMAIN m THEN m ELSE MapPut(m, key, newEntry(pipe, created))

\* CachedEntryPipeline.get(key)
Get(m, pipe, key, created) ==
  LET c == CacheGet(m, pipe, key, created)
  IN MapPut(c, key, [c[key] EXCEPT !.count = @ + 1])

MergedLastSent(stats, lastSent) ==
  IF stats.lastSent = NoLastSent \/ lastSent > stats.lastSent
  THEN lastSent ELSE stats.lastSent

\* sitesTokens of the entry with the row's tokens set in it
MergedSitesTokens(mine, theirs) ==
  [site \in (DOMAIN mine) \cup (DOMAIN theirs) |->
    IF site \notin DOMAIN theirs THEN mine[site]
    ELSE IF site \notin DOMAIN mine THEN theirs[site]
    ELSE [tok \in (DOMAIN mine[site]) \cup (DOMAIN theirs[site]) |->
           IF tok \in DOMAIN theirs[site] THEN theirs[site][tok]
           ELSE mine[site][tok]]]

updateCache(pipe, m, row, created) ==
  LET key == row[PrimaryKey(pipe)]
      c == CacheGet(m, pipe, key, created)
      stats == c[key]
  IN IF pipe = "tokens"
     THEN MapPut(c, key,
            [stats EXCEPT !.lastSent = MergedLastSent(stats, row.lastSent),
                          !.safe = row.safe,
                          !.created = Min(@, row.created),
                          !.sites = @ \cup row.sites,
                          !.trackers = @ \cup row.trackers,
                          !.count = Max(@, row.count)])
     ELSE MapPut(c, key,
            [stats EXCEPT !.lastSent = MergedLastSent(stats, row.lastSent),
                          !.key = row.key,
                          !.tracker = row.tracker,
                          !.created = Min(@, row.created),
                          !.sitesTokens =
                             MergedSitesTokens(@, row.sitesTokens),
                          !.count = Max(@, row.count)])

serialiseEntry(pipe, key, entry) ==
  IF pipe = "tokens"
  THEN [token |-> key, created |-> entry.created, safe |-> entry.safe,
        lastSent |-> Max(entry.lastSent, EmptyLastSent),
        sites |-> entry.sites, trackers |-> entry.trackers,
        count |-> entry.count]
  ELSE [hash |-> key, key |-> entry.key, tracker |-> entry.tracker,
        created |-> entry.created,
        lastSent |-> Max(entry.lastSent, EmptyLastSent),
        sitesTokens |-> entry.sitesTokens, count |-> entry.count]

hasData(pipe, row) ==
  IF pipe = "tokens" THEN row.sites # {} /\ row.trackers # {}
  ELSE DOMAIN row.sitesTokens # {}

\* db.where({primaryKey, anyOf: keys}): the rows it resolves with
RowsOf(table, keys) ==
  [i \in 1..Len(InOrder(KeyOrder, (DOMAIN table) \cap keys)) |->
    table[InOrder(KeyOrder, (DOMAIN table) \cap keys)[i]]]

\* loadBatchIntoCache once db.where has resolved with rows
RECURSIVE loadBatchIntoCache(_, _, _, _)
loadBatchIntoCache(pipe, m, rows, created) ==
  IF rows = <<>> THEN m
  ELSE loadBatchIntoCache(pipe, updateCache(pipe, m, Head(rows), created),
                          Tail(rows), created)

\* saveBatchToDb without `entry.dirty = false`
RECURSIVE saveBatchToDbKeepDirty(_, _, _, _, _)
saveBatchToDbKeepDirty(pipe, m, table, keys, created) ==
  IF keys = <<>> THEN [cache |-> m, db |-> table]
  ELSE LET key == Head(keys)
           c == CacheGet(m, pipe, key, created)
       IN saveBatchToDbKeepDirty(
            pipe, c, MapPut(table, key, serialiseEntry(pipe, key, c[key])),
            Tail(keys), created)

\* saveBatchToDb(keys): the cache with the entries marked clean and the
\* table after bulkPut
RECURSIVE saveBatchToDb(_, _, _, _, _)
saveBatchToDb(pipe, m, table, keys, created) ==
  IF keys = <<>> THEN [cache |-> m, db |-> table]
  ELSE LET key == Head(keys)
           c == CacheGet(m, pipe, key, created)
           entry == [c[key] EXCEPT !.dirty = FALSE]
       IN saveBatchToDb(pipe, MapPut(c, key, entry),
                        MapPut(table, key, serialiseEntry(pipe, key, entry)),
                        Tail(keys), created)

\* TokenPipeline.createMessagePayload over the tuples in order: the
\* payloads, and the cache with the entries cleared
RECURSIVE TokenPayloads(_, _, _, _)
TokenPayloads(toBeSent, m, ts, payloads) ==
  IF toBeSent = <<>> THEN [payloads |-> payloads, cache |-> m]
  ELSE LET token == Head(toBeSent)
           stats == m[token]
           msg == [ts |-> ts, token |-> token, safe |-> stats.safe,
                   sites |-> Cardinality(stats.sites),
                   trackers |-> Cardinality(stats.trackers)]
       IN TokenPayloads(Tail(toBeSent),
            MapPut(m, token, [stats EXCEPT !.sites = {}, !.trackers = {},
                                           !.count = 0]),
            ts, Append(payloads, msg))

\* groups of `size` payloads, the last one possibly smaller
RECURSIVE Chunks(_, _)
Chunks(payloads, size) ==
  IF payloads = <<>> THEN <<>>
  ELSE <<SubSeq(payloads, 1, Min(size, Len(payloads)))>>
         \o Chunks(SubSeq(payloads, Min(size, Len(payloads)) + 1,
                          Len(payloads)), size)

\* groupedMessages.get(name).push(item)
PushGrouped(grouped, name, item) ==
  IF \E g \in 1..Len(grouped) : grouped[g].name = name
  THEN [g \in 1..Len(grouped) |->
         IF grouped[g].name = name
         THEN [grouped[g] EXCEPT !.items = Append(@, item)]
         ELSE grouped[g]]
  ELSE Append(grouped, [name |-> name, items |-> <<item>>])

\* stats.sitesTokens.forEach of KeyPipeline.createMessagePayloads
RECURSIVE PushSites(_, _, _, _)
PushSites(grouped, stats, sites, ts) ==
  IF sites = <<>> THEN grouped
  ELSE LET site == Head(sites)
           tokens == stats.sitesTokens[site]
           unsafe == \E tok \in DOMAIN tokens : tokens[tok] = "false"
           extraKey == IF unsafe THEN stats.tracker \o ":" \o stats.key
                       ELSE ""
       IN PushSites(PushGrouped(grouped, site \o extraKey,
                                [ts |-> ts, tracker |-> stats.tracker,
                                 key |-> stats.key, site |-> site,
                                 tokens |-> tokens]),
                    stats, Tail(sites), ts)

RECURSIVE KeyPayloads(_, _, _, _, _, _)
KeyPayloads(toBeSent, m, batchLimit, ts, grouped, overflow) ==
  IF toBeSent = <<>>
  THEN [messages |-> [g \in 1..Len(grouped) |-> grouped[g].items],
        overflow |-> overflow, cache |-> m]
  ELSE LET hash == Head(toBeSent)
           stats == m[hash]
       IN IF Len(grouped) >= batchLimit
          THEN KeyPayloads(Tail(toBeSent), m, batchLimit, ts, grouped,
                           Append(overflow, hash))
          ELSE KeyPayloads(Tail(toBeSent),
                 MapPut(m, hash, [stats EXCEPT !.sitesTokens = <<>>,
                                               !.count = 0]),
                 batchLimit, ts,
                 PushSites(grouped, stats,
                           InOrder(SiteOrder, DOMAIN stats.sitesTokens), ts),
                 overflow)

\* the createMessagePayloads of the base class (lines 207-213) for the
\* tokens as well: one message per candidate, batchLimit candidates
createMessagePayloadsPerEntry(pipe, toBeSent, batchLimit, m, opts, ts) ==
  IF pipe = "tokens"
  THEN LET limit == Min(batchLimit, Len(toBeSent))
           kept == IF batchLimit # 0 THEN SubSeq(toBeSent, 1, limit)
                   ELSE toBeSent
           built == TokenPayloads(kept, m, ts, <<>>)
       IN [messages |-> Chunks(built.payloads, 1),
           overflow |-> IF batchLimit # 0
                        THEN SubSeq(toBeSent, limit + 1, Len(toBeSent))
                        ELSE <<>>,
           cache |-> built.cache]
  ELSE KeyPayloads(toBeSent, m, batchLimit, ts, <<>>, <<>>)

\* createMessagePayloads(toBeSent, batchLimit) of the two pipelines:
\* [messages, overflow] and the cache it leaves
createMessagePayloads(pipe, toBeSent, batchLimit, m, opts, ts) ==
  IF pipe = "tokens"
  THEN LET limit == Min(batchLimit * opts.TOKEN_MESSAGE_SIZE, Len(toBeSent))
           kept == IF batchLimit # 0 THEN SubSeq(toBeSent, 1, limit)
                   ELSE toBeSent
           built == TokenPayloads(kept, m, ts, <<>>)
       IN [messages |-> Chunks(built.payloads, opts.TOKEN_MESSAGE_SIZE),
           overflow |-> IF batchLimit # 0
                        THEN SubSeq(toBeSent, limit + 1, Len(toBeSent))
                        ELSE <<>>,
           cache |-> built.cache]
  ELSE KeyPayloads(toBeSent, m, batchLimit, ts, <<>>, <<>>)

BatchLimit(pipe, opts) ==
  IF pipe = "tokens" THEN opts.TOKEN_BATCH_SIZE ELSE opts.KEY_BATCH_SIZE

\* entry.lastSent = today for the tuples that did not overflow
RECURSIVE MarkSent(_, _, _)
MarkSent(m, keys, ts) ==
  IF keys = <<>> THEN m
  ELSE MarkSent(MapPut(m, Head(keys), [m[Head(keys)] EXCEPT !.lastSent = ts]),
                Tail(keys), ts)

RECURSIVE EnsureAll(_, _, _, _)
EnsureAll(m, pipe, keys, created) ==
  IF keys = <<>> THEN m
  ELSE EnsureAll(CacheGet(m, pipe, Head(keys), created), pipe, Tail(keys),
                 created)

\* the pipeline subscriber between its two awaits (lines 113-136): the
\* rows are merged, the candidates turned into messages, lastSent set and
\* the batch written back
SendBatch(pipe, m, table, keys, rows, opts, ts, created) ==
  LET loaded == EnsureAll(loadBatchIntoCache(pipe, m, rows, created),
                          pipe, keys, created)
      toBeSent == SelectSeq(keys, LAMBDA k : loaded[k].lastSent # ts)
      made == createMessagePayloads(pipe, toBeSent, BatchLimit(pipe, opts),
                                    loaded, opts, ts)
      overflowKeys == SeqSet(made.overflow)
      marked == MarkSent(made.cache,
                         SelectSeq(toBeSent, LAMBDA k : k \notin overflowKeys),
                         ts)
      saved == saveBatchToDb(pipe, marked, table, keys, created)
  IN [cache |-> saved.cache, db |-> saved.db, messages |-> made.messages,
      overflowKeys |-> InOrder(KeyOrder, overflowKeys)]

\* t.createdAt < pruneCutoff: a row has `created` and no `createdAt`, and
\* undefined < pruneCutoff is false
CreatedAtBefore(row, pruneCutoff) == FALSE

\* clean() between its two awaits (lines 166-203); the rows keep the order
\* db.where gave them

CleanBatch(pipe, m, table, queue, rows, opts, ts, time) ==
  LET maxSending ==
        ((opts.CLEAN_INTERVAL * opts.TOKEN_BATCH_SIZE
            * opts.TOKEN_MESSAGE_SIZE) + opts.TOKEN_BATCH_INTERVAL - 1)
          \div opts.TOKEN_BATCH_INTERVAL
      notSentToday ==
        SelectSeq(SubSeq(SelectSeq(rows, LAMBDA r : r.lastSent # ts),
                         1, Min(1000, Len(SelectSeq(rows,
                                        LAMBDA r : r.lastSent # ts)))),
                  LAMBDA r : r.created < time - opts.NEW_ENTRY_MIN_AGE)
      sendable(r) == hasData(pipe, r) /\ r.count > opts.MIN_COUNT
      queuedForSending == SelectSeq(notSentToday, sendable)
      toBeDeleted ==
        SelectSeq(notSentToday,
                  LAMBDA r : /\ ~sendable(r)
                             /\ \/ ~hasData(pipe, r)
                                \/ CreatedAtBefore(
                                     r, time - opts.LOW_COUNT_DISCARD_AGE))
      pushed == SubSeq(queuedForSending, 1,
                       Min(maxSending, Len(queuedForSending)))
      remaining == [k \in (DOMAIN table)
                      \ {toBeDeleted[i][PrimaryKey(pipe)] :
                           i \in 1..Len(toBeDeleted)} |-> table[k]]
      saveBatch == InOrder(KeyOrder, {k \in DOMAIN m : m[k].dirty})
      swept == [k \in {x \in DOMAIN m :
                         m[x].dirty \/ m[x].lastSent <= EmptyLastSent} |->
                 m[k]]
      saved == saveBatchToDb(pipe, swept, remaining, saveBatch, time)
  IN [cache |-> saved.cache, db |-> saved.db,
      batch |-> queue \o [i \in 1..Len(pushed) |->
                            pushed[i][PrimaryKey(pipe)]]]

----------------------------------------------------------------------------
(* token-telemetry.js: TokenTelemetry                                      *)

MaxRequests == 4   \* extractKeyTokens calls
MaxDays == 2       \* days the trusted clock goes through
MaxTimeSteps == 1  \* times Date.now() moves on
MaxBatches == 2    \* batches one send timer publishes
MaxCleans == 2     \* firings of the clean timer
MaxInflight == 1   \* async invocations suspended at an await

\* a request state: what state.urlParts.extractKeyValues().params,
\* shouldCheckToken and the qsWhitelist answer for it
Param(k, v, check, listed) ==
  [k |-> k, v |-> v, check |-> check, listed |-> listed]

Request(isPrivate, kv, tab) ==
  [isPrivate |-> isPrivate, kv |-> kv, tabDomain |-> tab,
   domain |-> "tp.test", isTracker |-> TRUE]

RequestStates ==
  {Request(FALSE, <<Param("k1", "v1", TRUE, FALSE),
                    Param("k2", "v2", FALSE, FALSE)>>, "s1.test"),
   Request(FALSE, <<Param("k1", "v1", TRUE, FALSE)>>, "s2.test"),
   Request(TRUE, <<Param("k1", "v1", TRUE, FALSE)>>, "s2.test"),
   Request(FALSE, <<>>, "s1.test")}

\* what subjectTokens.pub hands to the subscriber of lines 443-445: the
\* fields of a published tuple that are read later
Published(key, token, tp, fp, safe) ==
  [key |-> key, token |-> token, tp |-> tp, fp |-> fp, safe |-> safe]

\* a bare key published by overflowSubject.pub(k): every property read
\* from it is undefined
PublishedKey(k) ==
  Published(Undefined, Undefined, Undefined, Undefined, Undefined)

\* _saveKeyTokens: the tuples it publishes, in order
RECURSIVE saveKeyTokens(_, _, _, _)
saveKeyTokens(kv, firstParty, thirdPartyGeneralDomain, isTracker) ==
  IF kv = <<>> THEN <<>>
  ELSE LET p == Head(kv)
           safe == IF ~isTracker \/ p.listed THEN "true" ELSE "false"
           rest == saveKeyTokens(Tail(kv), firstParty,
                                 thirdPartyGeneralDomain, isTracker)
       IN IF ~p.check THEN rest
          ELSE <<Published(Md5(p.k), Md5(p.v), thirdPartyGeneralDomain,
                           firstParty, safe)>> \o rest

\* extractKeyTokens without the isPrivate guard
PublishedByAnyRequest(request) ==
  IF request.kv # <<>>
  THEN saveKeyTokens(request.kv, TruncatedHash(request.tabDomain),
                     TruncatedHash(request.domain), request.isTracker)
  ELSE <<>>

\* extractKeyTokens(state): what it publishes to subjectTokens
PublishedBy(request) ==
  IF request.isPrivate THEN <<>>
  ELSE IF request.kv # <<>>
  THEN saveKeyTokens(request.kv, TruncatedHash(request.tabDomain),
                     TruncatedHash(request.domain), request.isTracker)
  ELSE <<>>

\* the send condition of lines 473-479 and 482-488
ReachedThreshold(stats, nSites, opts, captured, entryCutoff) ==
  /\ stats.lastSent # captured
  /\ \/ nSites > 1
     \/ stats.count > opts.MIN_COUNT /\ stats.created < entryCutoff

\* batch.forEach of the filteredTokens subscriber
RECURSIVE FoldEntries(_, _, _, _, _, _, _)
FoldEntries(entries, tokenStats, keys, keyQueue, opts, captured, time) ==
  IF entries = <<>>
  THEN [tokenStats |-> tokenStats, keys |-> keys, keyQueue |-> keyQueue]
  ELSE LET entry == Head(entries)
           keyKey == entry.tp \o ":" \o entry.key
           got == Get(keys, "keys", keyKey, time)
           siteTokens == IF entry.fp \in DOMAIN got[keyKey].sitesTokens
                         THEN got[keyKey].sitesTokens[entry.fp] ELSE <<>>
           keyStats ==
             [got[keyKey] EXCEPT
                !.key = entry.key, !.tracker = entry.tp, !.dirty = TRUE,
                !.sitesTokens =
                   MapPut(@, entry.fp,
                          MapPut(siteTokens, entry.token, entry.safe))]
       IN FoldEntries(Tail(entries),
            [tokenStats EXCEPT !.sites = @ \cup {entry.fp},
                               !.trackers = @ \cup {entry.tp},
                               !.safe = JsAnd(@, entry.safe)],
            MapPut(got, keyKey, keyStats),
            IF ReachedThreshold(keyStats,
                                Cardinality(DOMAIN keyStats.sitesTokens),
                                opts, captured,
                                time - opts.NEW_ENTRY_MIN_AGE)
            THEN Append(keyQueue, keyKey) ELSE keyQueue,
            opts, captured, time)

TelemetryInit ==
  /\ options = DEFAULT_CONFIG
  /\ day = 1
  /\ now = 0
  /\ today = 1
  /\ cache = [p \in Pipes |-> <<>>]
  /\ db = [p \in Pipes |-> <<>>]
  /\ filteredTokensBatch = <<>>
  /\ batch = [p \in Pipes |-> <<>>]
  /\ running = <<>>
  /\ telemetry = <<>>
  /\ ticks = [p \in Pipes \cup {"clean"} |-> 0]
  /\ requests = 0
  /\ state = <<>>
  /\ ret = ""

InitTelemetry ==
  /\ patterns = <<>>
  /\ doc = <<>>
  /\ args = [query |-> Undefined, category |-> "", url |-> BaseURL,
             ctry |-> SafeCountryCode]
  /\ calls = 0
  /\ result = NoResult
  /\ JobIdle
  /\ TelemetryInit

\* extractKeyTokens(state), a step of the webrequest pipeline
ExtractKeyTokens(request) ==
  /\ requests < MaxRequests
  /\ requests' = requests + 1
  /\ state' = request
  /\ filteredTokensBatch' = filteredTokensBatch \o PublishedBy(request)
  /\ ret' = "true"
  /\ UNCHANGED <<options, day, now, today, cache, db, batch, running,
                 telemetry, ticks>>
  /\ UNCHANGED <<extractVars, jobVars>>

\* the TOKEN_BUFFER_TIME timer and the filteredTokens subscriber
\* (lines 438-491); an empty batch returns at once
BufferTick ==
  /\ filteredTokensBatch # <<>>
  /\ LET token == filteredTokensBatch[1].token
         got == Get(cache["tokens"], "tokens", token, now)
         folded == FoldEntries(filteredTokensBatch,
                               [got[token] EXCEPT !.dirty = TRUE],
                               cache["keys"], batch["keys"], options,
                               today, now)
         tokenStats == folded.tokenStats
     IN /\ cache' = [tokens |-> MapPut(got, token, tokenStats),
                     keys |-> folded.keys]
        /\ batch' =
             [tokens |->
                IF ReachedThreshold(tokenStats,
                                    Cardinality(tokenStats.sites), options,
                                    today, now - options.NEW_ENTRY_MIN_AGE)
                THEN Append(batch["tokens"], token) ELSE batch["tokens"],
              keys |-> folded.keyQueue]
  /\ filteredTokensBatch' = <<>>
  /\ UNCHANGED <<options, day, now, today, db, running, telemetry, ticks,
                 requests, state, ret>>
  /\ UNCHANGED <<extractVars, jobVars>>

Invocation(kind, pipe, at, keys, rows, messages, overflowKeys, no) ==
  [kind |-> kind, pipe |-> pipe, pc |-> at, keys |-> keys, rows |-> rows,
   messages |-> messages, overflowKeys |-> overflowKeys, no |-> no]

\* a batch timer fires (lines 104-107) and the pipeline subscriber runs up
\* to its await of loadBatchIntoCache; a batch without keys changes nothing
BatchTick(pipe) ==
  /\ batch[pipe] # <<>>
  /\ Len(running) < MaxInflight
  /\ ticks[pipe] < MaxBatches
  /\ ticks' = [ticks EXCEPT ![pipe] = @ + 1]
  /\ batch' = [batch EXCEPT ![pipe] = <<>>]
  /\ running' = Append(running,
                  Invocation("send", pipe, "load", batch[pipe],
                             RowsOf(db[pipe], SeqSet(batch[pipe])),
                             <<>>, <<>>, ticks[pipe] + 1))
  /\ UNCHANGED <<options, day, now, today, cache, db, filteredTokensBatch,
                 telemetry, requests, state, ret>>
  /\ UNCHANGED <<extractVars, jobVars>>

\* db.where resolves: the subscriber runs to its await of saveBatchToDb
LoadResolves(i) ==
  /\ i \in 1..Len(running)
  /\ running[i].kind = "send"
  /\ running[i].pc = "load"
  /\ LET pipe == running[i].pipe
         sent == SendBatch(pipe, cache[pipe], db[pipe], running[i].keys,
                           running[i].rows, options, day, now)
     IN /\ cache' = [cache EXCEPT ![pipe] = sent.cache]
        /\ db' = [db EXCEPT ![pipe] = sent.db]
        /\ running' = [running EXCEPT ![i] =
                         [@ EXCEPT !.pc = "save",
                                   !.messages = sent.messages,
                                   !.overflowKeys = sent.overflowKeys]]
  /\ UNCHANGED <<options, day, now, today, filteredTokensBatch, batch,
                 telemetry, ticks, requests, state, ret>>
  /\ UNCHANGED <<extractVars, jobVars>>

ActionOf(pipe) ==
  IF pipe = "tokens" THEN "attrack.tokensv2" ELSE "attrack.keysv2"

\* bulkPut resolves: the messages are sent and the overflow is pushed back
SaveResolves(i) ==
  /\ i \in 1..Len(running)
  /\ running[i].kind = "send"
  /\ running[i].pc = "save"
  /\ telemetry' = telemetry \o
       [m \in 1..Len(running[i].messages) |->
         [action |-> ActionOf(running[i].pipe),
          payload |-> running[i].messages[m],
          batch |-> running[i].no]]
  /\ filteredTokensBatch' = filteredTokensBatch \o
       [k \in 1..Len(running[i].overflowKeys) |->
         PublishedKey(running[i].overflowKeys[k])]
  /\ running' = Without(running, i)
  /\ UNCHANGED <<options, day, now, today, cache, db, batch, ticks,
                 requests, state, ret>>
  /\ UNCHANGED <<extractVars, jobVars>>

\* the CLEAN_INTERVAL timer fires: tokens.clean() runs to its first await
CleanTick ==
  /\ Len(running) < MaxInflight
  /\ ticks["clean"] < MaxCleans
  /\ ticks' = [ticks EXCEPT !["clean"] = @ + 1]
  /\ running' = Append(running,
                  Invocation("clean", "tokens", "load", <<>>,
                             RowsOf(db["tokens"], DOMAIN db["tokens"]),
                             <<>>, <<>>, ticks["clean"] + 1))
  /\ UNCHANGED <<options, day, now, today, cache, db, filteredTokensBatch,
                 batch, telemetry, requests, state, ret>>
  /\ UNCHANGED <<extractVars, jobVars>>

\* db.where of clean() resolves: clean runs to its await of saveBatchToDb
CleanLoadResolves(i) ==
  /\ i \in 1..Len(running)
  /\ running[i].kind = "clean"
  /\ running[i].pc = "load"
  /\ LET pipe == running[i].pipe
         cleaned == CleanBatch(pipe, cache[pipe], db[pipe], batch[pipe],
                               running[i].rows, options, day, now)
     IN /\ cache' = [cache EXCEPT ![pipe] = cleaned.cache]
        /\ db' = [db EXCEPT ![pipe] = cleaned.db]
        /\ batch' = [batch EXCEPT ![pipe] = cleaned.batch]
        /\ running' = [running EXCEPT ![i] = [@ EXCEPT !.pc = "save"]]
  /\ UNCHANGED <<options, day, now, today, filteredTokensBatch, telemetry,
                 ticks, requests, state, ret>>
  /\ UNCHANGED <<extractVars, jobVars>>

\* saveBatchToDb of clean() resolves: after tokens.clean() the timer's
\* callback goes on with keys.clean() (lines 508-511)
CleanSaveResolves(i) ==
  /\ i \in 1..Len(running)
  /\ running[i].kind = "clean"
  /\ running[i].pc = "save"
  /\ running' =
       IF running[i].pipe = "tokens"
       THEN [running EXCEPT ![i] =
               Invocation("clean", "keys", "load", <<>>,
                          RowsOf(db["keys"], DOMAIN db["keys"]),
                          <<>>, <<>>, running[i].no)]
       ELSE Without(running, i)
  /\ UNCHANGED <<options, day, now, today, cache, db, filteredTokensBatch,
                 batch, telemetry, ticks, requests, state, ret>>
  /\ UNCHANGED <<extractVars, jobVars>>

\* midnight of the trusted clock
NextDay ==
  /\ day < MaxDays
  /\ day' = day + 1
  /\ UNCHANGED <<options, now, today, cache, db, filteredTokensBatch, batch,
                 running, telemetry, ticks, requests, state, ret>>
  /\ UNCHANGED <<extractVars, jobVars>>

\* wall-clock time moves on by more than NEW_ENTRY_MIN_AGE
PassTime ==
  /\ now < MaxTimeSteps * 2 * options.NEW_ENTRY_MIN_AGE
  /\ now' = now + 2 * options.NEW_ENTRY_MIN_AGE
  /\ UNCHANGED <<options, day, today, cache, db, filteredTokensBatch, batch,
                 running, telemetry, ticks, requests, state, ret>>
  /\ UNCHANGED <<extractVars, jobVars>>

NextTelemetry ==
  \/ \E request \in RequestStates : ExtractKeyTokens(request)
  \/ BufferTick
  \/ \E pipe \in Pipes : BatchTick(pipe)
  \/ \E i \in 1..MaxInflight : LoadResolves(i)
  \/ \E i \in 1..MaxInflight : SaveResolves(i)
  \/ CleanTick
  \/ \E i \in 1..MaxInflight : CleanLoadResolves(i)
  \/ \E i \in 1..MaxInflight : CleanSaveResolves(i)
  \/ NextDay
  \/ PassTime

SpecTelemetry == InitTelemetry /\ [][NextTelemetry]_vars

\* the webrequest pipeline and the buffer timer alone
NextRequests ==
  \/ \E request \in RequestStates : ExtractKeyTokens(request)
  \/ BufferTick

SpecRequests == InitTelemetry /\ [][NextRequests]_vars

\* requests with a whitelisted and an unlisted observation of one token
\* and with a second token
ObservedStates ==
  {Request(FALSE, <<Param("k1", "v1", TRUE, TRUE)>>, "s1.test"),
   Request(FALSE, <<Param("k1", "v1", TRUE, FALSE)>>, "s2.test"),
   Request(FALSE, <<Param("k2", "v2", TRUE, TRUE)>>, "s1.test")}

\* the webrequest pipeline with these requests and the buffer timer
NextBuffer ==
  \/ \E request \in ObservedStates : ExtractKeyTokens(request)
  \/ BufferTick

SpecBuffer == InitTelemetry /\ [][NextBuffer]_vars

\* these requests, the buffer timer, the batch timers and the clean timer
\* within one day
NextObserved ==
  \/ \E request \in ObservedStates : ExtractKeyTokens(request)
  \/ BufferTick
  \/ \E pipe \in Pipes : BatchTick(pipe)
  \/ \E i \in 1..MaxInflight : LoadResolves(i)
  \/ \E i \in 1..MaxInflight : SaveResolves(i)
  \/ CleanTick
  \/ \E i \in 1..MaxInflight : CleanLoadResolves(i)
  \/ \E i \in 1..MaxInflight : CleanSaveResolves(i)

SpecObserved == InitTelemetry /\ [][NextObserved]_vars

----------------------------------------------------------------------------
(* createMessagePayloads of the two pipelines, called on its own: batch    *)
(* holds the candidate list toBeSent, running the calls made               *)

MaxCandidates == 5 \* entries of one candidate list

\* batch and message sizes small enough for the candidate lists to overflow
PayloadOptions ==
  {[DEFAULT_CONFIG EXCEPT !.TOKEN_BATCH_SIZE = limit,
                          !.TOKEN_MESSAGE_SIZE = size,
                          !.KEY_BATCH_SIZE = limit] :
     limit \in {1, 2}, size \in {1, 2}}

CandidateTokens == {Md5("v1"), Md5("v2")}
CandidateKeys == {KeyOrder[3], KeyOrder[4]}

CandidateLists(keys) == UNION {[1..n -> keys] : n \in 0..MaxCandidates}

\* a token seen on one site with one tracker
TokenEntry ==
  [newEntry("tokens", 0) EXCEPT !.sites = {SiteOrder[1]},
                                !.trackers = {TruncatedHash("tp.test")},
                                !.count = 2]

\* a key with tokens on the sites given, all of them safe or none
KeyEntry(key, sites, safe) ==
  [newEntry("keys", 0) EXCEPT
     !.key = key, !.tracker = TruncatedHash("tp.test"), !.count = 2,
     !.sitesTokens = [site \in sites |-> (Md5("v1") :> safe)]]

KeyCaches ==
  {(KeyOrder[3] :> KeyEntry(Md5("k1"), {SiteOrder[1], SiteOrder[2]}, "true"))
     @@ (KeyOrder[4] :> KeyEntry(Md5("k2"), {SiteOrder[1]}, safe)) :
     safe \in {"true", "false"}}

InitPayloads ==
  /\ patterns = <<>>
  /\ doc = <<>>
  /\ args = [query |-> Undefined, category |-> "", url |-> BaseURL,
             ctry |-> SafeCountryCode]
  /\ calls = 0
  /\ result = NoResult
  /\ JobIdle
  /\ options \in PayloadOptions
  /\ day = 1
  /\ now = 0
  /\ today = 1
  /\ \E keys \in KeyCaches :
       cache = [tokens |-> [t \in CandidateTokens |-> TokenEntry],
                keys |-> keys]
  /\ db = [p \in Pipes |-> <<>>]
  /\ filteredTokensBatch = <<>>
  /\ \/ \E l \in CandidateLists(CandidateTokens) :
          batch = [tokens |-> l, keys |-> <<>>]
     \/ \E l \in CandidateLists(CandidateKeys) :
          batch = [tokens |-> <<>>, keys |-> l]
  /\ running = <<>>
  /\ telemetry = <<>>
  /\ ticks = [p \in Pipes \cup {"clean"} |-> 0]
  /\ requests = 0
  /\ state = <<>>
  /\ ret = ""

\* one call this.createMessagePayloads(toBeSent, batchLimit) of a pipeline
\* (lines 122-125): the entries are cleared, the messages and the overflow
\* returned
CreatePayloads(pipe) ==
  /\ ticks[pipe] = 0
  /\ ticks' = [ticks EXCEPT ![pipe] = 1]
  /\ LET made == createMessagePayloads(pipe, batch[pipe],
                                       BatchLimit(pipe, options),
                                       cache[pipe], options, day)
     IN /\ cache' = [cache EXCEPT ![pipe] = made.cache]
        /\ running' = Append(running,
                         Invocation("payloads", pipe, "returned", batch[pipe],
                                    <<>>, made.messages, made.overflow, 1))
  /\ UNCHANGED <<options, day, now, today, db, filteredTokensBatch, batch,
                 telemetry, requests, state, ret>>
  /\ UNCHANGED <<extractVars, jobVars>>

NextPayloads == \E pipe \in Pipes : CreatePayloads(pipe)

SpecPayloads == InitPayloads /\ [][NextPayloads]_vars

----------------------------------------------------------------------------
(* clean() on its own: the clean timer fires on a cache and a database of  *)
(* the token pipeline drawn from the entries and rows below, on day 2      *)

\* Date.now() when the timer fires: entries created at 0 are new, older
\* than NEW_ENTRY_MIN_AGE, or older than LOW_COUNT_DISCARD_AGE
CleanTimes ==
  {0, 2 * DEFAULT_CONFIG.NEW_ENTRY_MIN_AGE,
   2 * DEFAULT_CONFIG.LOW_COUNT_DISCARD_AGE}

\* cache entries: dirty or saved; never sent, merged from an unsent row,
\* sent yesterday or sent today
CleanEntries ==
  {[TokenEntry EXCEPT !.dirty = dirty, !.lastSent = lastSent] :
     dirty \in BOOLEAN, lastSent \in {NoLastSent, EmptyLastSent, 1, 2}}

\* the rows of a key: the marker of data sent yesterday or today, unsent
\* data seen once, unsent data seen twice
CleanRows(key) ==
  {serialiseEntry("tokens", key,
     [TokenEntry EXCEPT !.sites = {}, !.trackers = {}, !.count = 0,
                        !.lastSent = 1]),
   serialiseEntry("tokens", key,
     [TokenEntry EXCEPT !.sites = {}, !.trackers = {}, !.count = 0,
                        !.lastSent = 2]),
   serialiseEntry("tokens", key, [TokenEntry EXCEPT !.count = 1]),
   serialiseEntry("tokens", key, TokenEntry)}

\* the tables with a row or none for each token
CleanTables ==
  {table \in UNION {[keys -> UNION {CleanRows(k) : k \in CandidateTokens}] :
                      keys \in SUBSET CandidateTokens} :
     \A k \in DOMAIN table : table[k].token = k}

InitClean ==
  /\ patterns = <<>>
  /\ doc = <<>>
  /\ args = [query |-> Undefined, category |-> "", url |-> BaseURL,
             ctry |-> SafeCountryCode]
  /\ calls = 0
  /\ result = NoResult
  /\ JobIdle
  /\ options = DEFAULT_CONFIG
  /\ day = 2
  /\ now \in CleanTimes
  /\ today = 2
  /\ \E entries \in [CandidateTokens -> CleanEntries] :
       \E keys \in KeyCaches :
         cache = [tokens |-> entries, keys |-> keys]
  /\ \E table \in CleanTables :
       /\ \A k \in CandidateTokens :
            ~cache["tokens"][k].dirty => k \in DOMAIN table
       /\ db = [tokens |-> table, keys |-> <<>>]
  /\ filteredTokensBatch = <<>>
  /\ batch = [p \in Pipes |-> <<>>]
  /\ running = <<>>
  /\ telemetry = <<>>
  /\ ticks = [p \in Pipes \cup {"clean"} |-> 0]
  /\ requests = 0
  /\ state = <<>>
  /\ ret = ""

NextClean ==
  \/ CleanTick
  \/ \E i \in 1..MaxInflight : CleanLoadResolves(i)
  \/ \E i \in 1..MaxInflight : CleanSaveResolves(i)

SpecClean == InitClean /\ [][NextClean]_vars

----------------------------------------------------------------------------
(* The send pipelines with a queue that overflows: the candidate lists of  *)
(* InitPayloads are the send queues, the batch timers, the awaits of the   *)
(* pipeline subscriber and the buffer timer run, each of them fairly       *)

NextOverflow ==
  \/ \E pipe \in Pipes : BatchTick(pipe)
  \/ \E i \in 1..MaxInflight : LoadResolves(i)
  \/ \E i \in 1..MaxInflight : SaveResolves(i)
  \/ BufferTick

\* what enables the steps that run a subscriber
Awaiting(at) ==
  \E i \in 1..Len(running) : running[i].kind = "send" /\ running[i].pc = at
Buffered == filteredTokensBatch # <<>>

\* a timer that is due fires and a promise that can settle settles: weak
\* fairness of each step; for the steps that run the subscribers the
\* enabling condition is written out
FairOverflow ==
  /\ \A pipe \in Pipes : WF_vars(BatchTick(pipe))
  /\ []<>(~Awaiting("load"))
       \/ []<><<\E i \in 1..MaxInflight : LoadResolves(i)>>_vars
  /\ []<>(~Awaiting("save"))
       \/ []<><<\E i \in 1..MaxInflight : SaveResolves(i)>>_vars
  /\ []<>(~Buffered) \/ []<><<BufferTick>>_vars

SpecOverflow == InitPayloads /\ [][NextOverflow]_vars /\ FairOverflow

----------------------------------------------------------------------------
(* cookie-context.js: CookieContext.  trustedThirdParties is held in       *)
(* cache, Date.now() in now, the config in options, the general domains    *)
(* the qsWhitelist lists as trackers (hashed) in db, the request state of  *)
(* the last call in state, what it returned in ret and the stats it        *)
(* incremented in telemetry.  A ChromeStorageMap is modelled as the Map    *)
(* whose methods it has.                                                    *)

UNUSED_TRUST_TIMEOUT == 2 * 60 * 1000
USED_TRUST_TIMEOUT == 15 * 50 * 1000

MaxTrustCalls == 3     \* calls of assignCookieTrust and checkCookieTrust
MaxClock == 2          \* times Date.now() moves on
ClockStep == 3 * 60 * 1000

Hosts == {"a.x.test", "b.x.test", "y.test"}

\* getGeneralDomain and sameGeneralDomain of ../utils/tlds.js
getGeneralDomain(host) ==
  IF host \in {"a.x.test", "b.x.test"} THEN "x.test" ELSE host
sameGeneralDomain(a, b) == getGeneralDomain(a) = getGeneralDomain(b)

\* the lists of the qsWhitelist: y.test is a tracker domain or is not
TrackerLists == {{}, {TruncatedHash("y.test")}}

\* this.qsWhitelist.isTrackerDomain(truncatedHash(getGeneralDomain(host)))
isTrackerDomain(list, host) ==
  TruncatedHash(getGeneralDomain(host)) \in list

TrustKey(first, third) == first \o ":" \o third

\* _addTrustLink without its two early returns
addTrustLinkUnguarded(map, list, fromFirstParty, toThirdParty, time) ==
  MapPut(map, TrustKey(fromFirstParty, toThirdParty),
         [c |-> IF TrustKey(fromFirstParty, toThirdParty) \in DOMAIN map
                THEN map[TrustKey(fromFirstParty, toThirdParty)].c ELSE 0,
          ts |-> time])

\* _addTrustLink(fromFirstParty, toThirdParty): the map after it
addTrustLink(map, list, fromFirstParty, toThirdParty, time) ==
  IF sameGeneralDomain(fromFirstParty, toThirdParty) THEN map
  ELSE IF isTrackerDomain(list, toThirdParty) THEN map
  ELSE LET key == TrustKey(fromFirstParty, toThirdParty)
       IN MapPut(map, key,
                 [c |-> IF key \in DOMAIN map THEN map[key].c ELSE 0,
                  ts |-> time])

\* a referrer that parse() returns null for
Unparsable == "<unparsable>"

\* a request state: isMainFrame, getReferrer() (its host, '' or a string
\* that does not parse), urlParts.hostname, tabUrlParts.hostname and
\* whether statusCode is defined
CookieState(call, isMainFrame, referrer, hostname, tabHostname, status) ==
  [call |-> call, isMainFrame |-> isMainFrame, referrer |-> referrer,
   hostname |-> hostname, tabHostname |-> tabHostname,
   statusCode |-> status]

\* assignCookieTrust(state): the map after it; it returns true
assignCookieTrust(map, list, st, time) ==
  IF st.isMainFrame /\ st.referrer # ""
  THEN IF st.referrer = Unparsable THEN map
       ELSE addTrustLink(map, list, st.referrer, st.hostname, time)
  ELSE map

\* checkCookieTrust(state): the map after it, what it returns and the
\* stats it increments
checkCookieTrust(map, config, st, time) ==
  LET stage == IF st.statusCode # Undefined THEN "set_cookie" ELSE "cookie"
      key == TrustKey(st.tabHostname, st.hostname)
  IN IF config.cookieTrustReferers /\ key \in DOMAIN map
     THEN [map |-> MapPut(map, key,
                     [c |-> map[key].c + 1, ts |-> time]),
           ret |-> "false", stats |-> <<stage \o "_allow_trust">>]
     ELSE [map |-> map, ret |-> "true", stats |-> <<>>]

\* cleanCookieCache(): the map after it
cleanCookieCache(map, time) ==
  [key \in {k \in DOMAIN map :
              ~(time > map[k].ts
                         + (IF map[k].c > 0 THEN USED_TRUST_TIMEOUT
                            ELSE UNUSED_TRUST_TIMEOUT))} |-> map[key]]

AssignStates ==
  {CookieState("assignCookieTrust", isMainFrame, referrer, hostname, "",
               Undefined) :
     isMainFrame \in BOOLEAN, referrer \in Hosts \cup {"", Unparsable},
     hostname \in Hosts}

CheckStates ==
  {CookieState("checkCookieTrust", FALSE, "", hostname, tabHostname, status) :
     hostname \in Hosts, tabHostname \in Hosts, status \in {Undefined, "200"}}

InitCookie ==
  /\ patterns = <<>>
  /\ doc = <<>>
  /\ args = [query |-> Undefined, category |-> "", url |-> BaseURL,
             ctry |-> SafeCountryCode]
  /\ calls = 0
  /\ result = NoResult
  /\ JobIdle
  /\ options \in {[cookieTrustReferers |-> flag] : flag \in BOOLEAN}
  /\ day = 0
  /\ now = 0
  /\ today = 0
  /\ cache = <<>>
  /\ db \in TrackerLists
  /\ filteredTokensBatch = <<>>
  /\ batch = <<>>
  /\ running = <<>>
  /\ telemetry = <<>>
  /\ ticks = <<>>
  /\ requests = 0
  /\ state = <<>>
  /\ ret = ""

\* assignCookieTrust(state), a step of the webrequest pipeline
AssignCookieTrust(st) ==
  /\ requests < MaxTrustCalls
  /\ requests' = requests + 1
  /\ state' = st
  /\ cache' = assignCookieTrust(cache, db, st, now)
  /\ ret' = "true"
  /\ UNCHANGED <<options, day, now, today, db, filteredTokensBatch, batch,
                 running, telemetry, ticks>>
  /\ UNCHANGED <<extractVars, jobVars>>

\* checkCookieTrust(state), a step of the webrequest pipeline
CheckCookieTrust(st) ==
  /\ requests < MaxTrustCalls
  /\ requests' = requests + 1
  /\ state' = st
  /\ LET checked == checkCookieTrust(cache, options, st, now)
     IN /\ cache' = checked.map
        /\ ret' = checked.ret
        /\ telemetry' = telemetry \o checked.stats
  /\ UNCHANGED <<options, day, now, today, db, filteredTokensBatch, batch,
                 running, ticks>>
  /\ UNCHANGED <<extractVars, jobVars>>

\* the CLEAN_COOKIE_CACHE_TIMEOUT timer fires
CleanCookieCache ==
  /\ cache' = cleanCookieCache(cache, now)
  /\ UNCHANGED <<options, day, now, today, db, filteredTokensBatch, batch,
                 running, telemetry, ticks, requests, state, ret>>
  /\ UNCHANGED <<extractVars, jobVars>>

\* the ChromeStorageMap drops an entry whose ttlInMs has run out
TtlExpires ==
  /\ now > 0
  /\ \E key \in DOMAIN cache : cache' = MapDelete(cache, key)
  /\ UNCHANGED <<options, day, now, today, db, filteredTokensBatch, batch,
                 running, telemetry, ticks, requests, state, ret>>
  /\ UNCHANGED <<extractVars, jobVars>>

\* Date.now() moves on by more than UNUSED_TRUST_TIMEOUT
ClockTick ==
  /\ now < MaxClock * ClockStep
  /\ now' = now + ClockStep
  /\ UNCHANGED <<options, day, today, cache, db, filteredTokensBatch, batch,
                 running, telemetry, ticks, requests, state, ret>>
  /\ UNCHANGED <<extractVars, jobVars>>

\* the qsWhitelist is updated: y.test becomes a tracker domain or stops
\* being one
WhitelistUpdate ==
  /\ db' \in TrackerLists \ {db}
  /\ UNCHANGED <<options, day, now, today, cache, filteredTokensBatch, batch,
                 running, telemetry, ticks, requests, state, ret>>
  /\ UNCHANGED <<extractVars, jobVars>>

NextCookie ==
  \/ \E st \in AssignStates : AssignCookieTrust(st)
  \/ \E st \in CheckStates : CheckCookieTrust(st)
  \/ CleanCookieCache
  \/ TtlExpires
  \/ ClockTick
  \/ WhitelistUpdate

SpecCookie == InitCookie /\ [][NextCookie]_vars

----------------------------------------------------------------------------
(* Properties of extractMessages, checked under SpecExtract                *)

Called == calls > 0
HasRule == args.category \in DOMAIN patterns
TheRule == patterns[args.category]

\* the extraction map the last call worked on (doc is the pruned document)
FoundNow == EvalInput(doc, TheRule.input, args.url).found

HasMessage(action) ==
  \E m \in 1..Len(result.msgs) : result.msgs[m].body.action = action

\* messages without their anti-duplicates nonce
Strip(msgs) ==
  [m \in 1..Len(msgs) |->
    [action |-> msgs[m].body.action, payload |-> msgs[m].body.payload,
     deduplicateBy |-> msgs[m].deduplicateBy]]

\* C7: when the rules snapshot has no entry for the requested category
\* (the empty pattern set included), extractMessages returns an empty list
\* and does not throw, whatever the document, the query and the URL.
C7_UnknownCategoryYieldsNothing ==
  (Called /\ ~HasRule) => (result.err = "" /\ result.msgs = <<>>)

C7_Witness ==
  /\ Called
  /\ ~HasRule
  /\ patterns # <<>>
  /\ doc # <<>>
  /\ result.msgs = <<>>

\* a schema with a non-optional field drawn from a `first` input group
\* whose extracted value is absent
AbsentRequiredSingle(schema) ==
  \E k \in 1..Len(schema.fields) :
    LET field == schema.fields[k]
        idx == InputIndex(TheRule.input, field.source)
    IN /\ field.source # ""
       /\ idx # 0
       /\ TheRule.input[idx].kind = "first"
       /\ ~field.optional
       /\ ~isPresent(Lookup(FoundNow[idx], field.key))

\* C8: an output action with a non-optional field whose source is a `first`
\* input group and whose extracted value is absent yields no message, and
\* the call returns what it returns for the rule without that action: the
\* other actions are assembled as before.
C8_AbsentSingleValueDiscardsAction ==
  (Called /\ HasRule) =>
    \A i \in 1..Len(TheRule.output) :
      AbsentRequiredSingle(TheRule.output[i]) =>
        /\ ~HasMessage(TheRule.output[i].action)
        /\ result.err = "" =>
             Strip(result.msgs) =
               Strip(ExtractRule(
                 [prune |-> <<>>, input |-> TheRule.input,
                  output |-> Without(TheRule.output, i)],
                 doc, args.query, args.url, args.ctry,
                 [n \in 1..(Len(TheRule.output) - 1) |-> 0]).msgs)

C8_Witness ==
  /\ Called
  /\ HasRule
  /\ result.err = ""
  /\ result.msgs # <<>>
  /\ \E i \in 1..Len(TheRule.output) :
       /\ AbsentRequiredSingle(TheRule.output[i])
       /\ QuerySelector(doc, "div") # NoElem

PayloadPresent(payload, key) ==
  \E k \in 1..Len(payload) :
    /\ payload[k].key = key
    /\ IF payload[k].isArray THEN payload[k].value # <<>>
       ELSE isPresent(payload[k].value)

C9_RequiredSourcedFieldPresent ==
  (Called /\ HasRule) =>
    \A m \in 1..Len(result.msgs) :
      LET schema == SchemaOf(TheRule.output, result.msgs[m].body.action)
      IN \A k \in 1..Len(schema.fields) :
           (/\ ~schema.fields[k].optional
            /\ schema.fields[k].source # ""
            /\ \A later \in (k + 1)..Len(schema.fields) :
                 schema.fields[later].key # schema.fields[k].key)
           => PayloadPresent(result.msgs[m].body.payload,
                             schema.fields[k].key)

\* C9 as amended, the context fields: a non-optional context field whose
\* context value is absent is left out of the payload of the message (no
\* other field of the schema writing its key).
C9_AbsentContextFieldLeftOut ==
  (Called /\ HasRule) =>
    \A m \in 1..Len(result.msgs) :
      LET schema == SchemaOf(TheRule.output, result.msgs[m].body.action)
          payload == result.msgs[m].body.payload
          context == Context(args.query, args.url, args.ctry)
      IN \A k \in 1..Len(schema.fields) :
           (/\ ~schema.fields[k].optional
            /\ schema.fields[k].source = ""
            /\ ~isPresent(Lookup(context, schema.fields[k].key))
            /\ \A other \in 1..Len(schema.fields) :
                 other # k => schema.fields[other].key # schema.fields[k].key)
           => \A p \in 1..Len(payload) : payload[p].key # schema.fields[k].key

HasInvalidSource ==
  \E i \in 1..Len(TheRule.output) :
    \E k \in 1..Len(TheRule.output[i].fields) :
      /\ TheRule.output[i].fields[k].source # ""
      /\ InputIndex(TheRule.input, TheRule.output[i].fields[k].source) = 0

\* C10: a rule in which some output field names a source that is no key of
\* the input section makes extractMessages raise BadPatternError and return
\* no messages, whatever the document and the other fields of the action.
C10_InvalidSourceAlwaysThrows ==
  (Called /\ HasRule /\ HasInvalidSource) =>
    (result.err = BadPatternError /\ result.msgs = <<>>)

NamesUnknown(transform) ==
  /\ transform.isArray
  /\ \E s \in 1..Len(transform.steps) :
       /\ \A t \in 1..s : transform.steps[t].isArray
       /\ transform.steps[s].name \notin KnownTransforms

\* the field definition names an unknown transform anywhere
DefNamesUnknown(def) ==
  \/ NamesUnknown(def.transform)
  \/ /\ def.hasFirstMatch
     /\ \E a \in 1..Len(def.firstMatch) :
          NamesUnknown(def.firstMatch[a].transform)

\* evaluating the definition on this root item hands a non-null value to a
\* chain that names an unknown transform
UnknownReachedAt(item, def, baseURI) ==
  \/ /\ NamesUnknown(def.transform)
     /\ findFirstMatch(item, def, baseURI) # Null
  \/ /\ def.hasFirstMatch
     /\ \E a \in 1..Len(def.firstMatch) :
          /\ NamesUnknown(def.firstMatch[a].transform)
          /\ OrNull(runSelector(item, def.firstMatch[a].select,
                                def.firstMatch[a].attr, baseURI)) # Null
          /\ \A b \in 1..(a - 1) :
               OrNull(runSelector(item, def.firstMatch[b].select,
                                  def.firstMatch[b].attr, baseURI)) = Null

RuleNamesUnknown ==
  \E i \in 1..Len(TheRule.input) :
    \E k \in 1..Len(TheRule.input[i].fields) :
      DefNamesUnknown(TheRule.input[i].fields[k].def)

UnknownReached ==
  \E i \in 1..Len(TheRule.input) :
    \E k \in 1..Len(TheRule.input[i].fields) :
      LET group == TheRule.input[i]
          roots == IF group.kind = "first"
                   THEN IF QuerySelector(doc, group.selector) = NoElem
                        THEN <<>>
                        ELSE <<QuerySelector(doc, group.selector)>>
                   ELSE IF group.kind = "all"
                   THEN QuerySelectorAll(doc, group.selector)
                   ELSE <<>>
      IN \E r \in 1..Len(roots) :
           UnknownReachedAt(roots[r], group.fields[k].def, args.url)

\* the rule with every transform chain emptied
WithoutTransforms(rule) ==
  [rule EXCEPT !.input =
    [i \in 1..Len(rule.input) |->
      [rule.input[i] EXCEPT !.fields =
        [k \in 1..Len(rule.input[i].fields) |->
          [rule.input[i].fields[k] EXCEPT
             !.def.transform = NoTransform,
             !.def.firstMatch =
               [a \in 1..Len(rule.input[i].fields[k].def.firstMatch) |->
                 [rule.input[i].fields[k].def.firstMatch[a]
                    EXCEPT !.transform = NoTransform]]]]]]]

\* C11 as stated: a rule of the requested category that names an unknown
\* transform in some field makes extractMessages raise the permanent error
\* and emit no messages, for every document.
C11_UnknownTransformThrowsOnEveryDocument ==
  (Called /\ HasRule /\ RuleNamesUnknown) =>
    (result.err = BadPatternError /\ result.msgs = <<>>)

\* when a non-null selection reaches the chain that names the unknown
\* transform, the call raises the permanent error and emits nothing
C11_ReachedUnknownTransformThrows ==
  (Called /\ HasRule /\ UnknownReached) =>
    (result.err = BadPatternError /\ result.msgs = <<>>)

\* when no non-null selection reaches it, the unknown name is never looked
\* up: the call behaves as if the chains were empty
C11_UnreachedUnknownTransformIgnored ==
  (Called /\ HasRule /\ RuleNamesUnknown /\ ~UnknownReached) =>
    LET plain == ExtractRule(WithoutTransforms(TheRule), doc, args.query,
                             args.url, args.ctry,
                             [o \in 1..Len(TheRule.output) |-> 0])
    IN /\ result.err = plain.err
       /\ Strip(result.msgs) = Strip(plain.msgs)

\* C11 (amended): a rule of the requested category that names an unknown
\* transform makes extractMessages raise the permanent error and emit no
\* messages on every document where a non-null selection reaches that
\* chain; on the other documents the name is never looked up and the call
\* proceeds as if the chain were empty.
C11_UnknownTransformAmended ==
  C11_ReachedUnknownTransformThrows /\ C11_UnreachedUnknownTransformIgnored

C11_Witness ==
  /\ Called
  /\ HasRule
  /\ UnknownReached
  /\ result.err = BadPatternError
  /\ \A i \in 1..Len(TheRule.output) :
       \A k \in 1..Len(TheRule.output[i].fields) :
         TheRule.output[i].fields[k].source \in {"", "div", "li"}

\* the messages the nextaction loop of the last call pushed, before the
\* redundancy filter (the rules of SpecFilter prune nothing, so doc is the
\* document the call saw)
AssembledNow ==
  Assemble(TheRule.output, [o \in 1..Len(TheRule.output) |-> 0], <<>>,
           TheRule.input, FoundNow,
           Context(args.query, args.url, args.ctry)).messages

AssembledActions ==
  {AssembledNow[m].body.action : m \in 1..Len(AssembledNow)}

OmitOf(action) == SchemaOf(TheRule.output, action).omitIfExistsAny

\* C12: extractMessages returns exactly the assembled messages whose
\* omitIfExistsAny names no action of the set assembled before filtering;
\* a message is dropped even if its only trigger is itself dropped.
C12_FilterAgainstAssembledSet ==
  (Called /\ HasRule /\ result.err = "") =>
    Strip(result.msgs) =
      Strip(SelectSeq(AssembledNow,
              LAMBDA msg : \A i \in 1..Len(OmitOf(msg.body.action)) :
                OmitOf(msg.body.action)[i] \notin AssembledActions))

C12_Witness ==
  /\ Called
  /\ HasRule
  /\ result.err = ""
  /\ \E x \in AssembledActions :
       /\ ~HasMessage(x)
       /\ x \notin {OmitOf(x)[i] : i \in 1..Len(OmitOf(x))}
       /\ \A i \in 1..Len(OmitOf(x)) :
            OmitOf(x)[i] \in AssembledActions => ~HasMessage(OmitOf(x)[i])

\* C13: the redundancy filter never drops a message whose own action is in
\* its own omitIfExistsAny list, unless another action of that list was
\* assembled too.
C13_SelfListedActionKept ==
  (Called /\ HasRule /\ result.err = "") =>
    \A x \in AssembledActions :
      (/\ x \in {OmitOf(x)[i] : i \in 1..Len(OmitOf(x))}
       /\ \A i \in 1..Len(OmitOf(x)) :
            OmitOf(x)[i] # x => OmitOf(x)[i] \notin AssembledActions)
      => HasMessage(x)

\* C14: after the input walk, the arrays extracted for the fields of an
\* `all` group all have the length of the list of elements its selector
\* matches in the preprocessed document.
C14_AllGroupArraysAligned ==
  (Called /\ HasRule /\ result.err = "") =>
    \A i \in 1..Len(TheRule.input) :
      TheRule.input[i].kind = "all" =>
        /\ Len(FoundNow[i]) = Len(TheRule.input[i].fields)
        /\ \A k \in 1..Len(FoundNow[i]) :
             Len(FoundNow[i][k].value)
               = Len(QuerySelectorAll(doc, TheRule.input[i].selector))

C14_Witness ==
  /\ Called
  /\ HasRule
  /\ result.err = ""
  /\ TheRule.prune # <<>>
  /\ \E i \in 1..Len(TheRule.input) :
       /\ TheRule.input[i].kind = "all"
       /\ Len(FoundNow[i]) = 2
       /\ Len(FoundNow[i][1].value) = 2
       /\ Null \in {FoundNow[i][1].value[r] : r \in 1..2}

\* the document as the list of its nodes in document order, each with its
\* depth
RECURSIVE Flat(_, _)
Flat(nodes, depth) ==
  IF nodes = <<>> THEN <<>>
  ELSE <<[depth |-> depth, tag |-> Head(nodes).tag,
          attrs |-> Head(nodes).attrs, text |-> Head(nodes).text]>>
         \o Flat(Head(nodes).kids, depth + 1) \o Flat(Tail(nodes), depth)

\* position k lies in the subtree rooted at position i
InSubtree(flat, i, k) ==
  /\ i <= k
  /\ \A j \in (i + 1)..k : flat[j].depth > flat[i].depth

FlatWithout(flat, roots) ==
  LET keep == {k \in 1..Len(flat) : \A i \in roots : ~InSubtree(flat, i, k)}
      RECURSIVE Pick(_)
      Pick(k) == IF k > Len(flat) THEN <<>>
                 ELSE IF k \in keep THEN <<flat[k]>> \o Pick(k + 1)
                 ELSE Pick(k + 1)
  IN Pick(1)

FlatMatches(flat, selector) ==
  {k \in 1..Len(flat) : flat[k].tag = selector}

\* the prune list read as the claim reads it, directive by directive
RECURSIVE FlatPrune(_, _)
FlatPrune(flat, directives) ==
  IF directives = <<>> THEN flat
  ELSE LET hits == FlatMatches(flat, Head(directives).selector)
       IN IF Head(directives).kind = "first"
          THEN FlatPrune(
                 FlatWithout(flat,
                   IF hits = {} THEN {}
                   ELSE {CHOOSE k \in hits : \A j \in hits : k <= j}),
                 Tail(directives))
          ELSE IF Head(directives).kind = "all"
          THEN FlatPrune(FlatWithout(flat, hits), Tail(directives))
          ELSE flat

\* C15: preprocessing applies the prune directives in list order before
\* any input is evaluated: `first` removes exactly the first element that
\* matches at that moment (none without a match), `all` removes every
\* match, and the elements no directive matches stay.
C15_PruneInListOrderBeforeInputs ==
  [][(calls' = calls + 1 /\ HasRule) =>
       /\ Flat(doc', 0) = FlatPrune(Flat(doc, 0), TheRule.prune)
       /\ result'.err = "" =>
            Strip(result'.msgs) =
              Strip(ExtractRule([TheRule EXCEPT !.prune = <<>>], doc',
                                args.query, args.url, args.ctry,
                                [o \in 1..Len(TheRule.output) |-> 0]).msgs)
    ]_vars

\* the complex scenario: only the first p, but all inner divs
C15_Witness ==
  /\ Called
  /\ HasRule
  /\ TheRule.prune = <<[kind |-> "first", selector |-> "p"],
                       [kind |-> "all", selector |-> "span"]>>
  /\ Len(result.msgs) = 1
  /\ result.msgs[1].body.payload[1]
       = [key |-> "title", isArray |-> FALSE, value |-> "123456"]

\* a is b with some entries left out
RECURSIVE IsSubseq(_, _)
IsSubseq(a, b) ==
  IF a = <<>> THEN TRUE
  ELSE IF b = <<>> THEN FALSE
  ELSE IF Head(a) = Head(b) THEN IsSubseq(Tail(a), Tail(b))
  ELSE IsSubseq(a, Tail(b))

PayloadKeys(msg) ==
  [k \in 1..Len(msg.body.payload) |-> msg.body.payload[k].key]

SchemaKeys(schema) ==
  [k \in 1..Len(schema.fields) |-> schema.fields[k].key]

\* C16: the returned messages follow the insertion order of the rule's
\* output mapping, each action at most once, and the keys of each payload
\* follow the order of the schema's fields list.
C16_OutputAndFieldOrderKept ==
  (Called /\ HasRule) =>
    /\ IsSubseq([m \in 1..Len(result.msgs) |-> result.msgs[m].body.action],
                [o \in 1..Len(TheRule.output) |-> TheRule.output[o].action])
    /\ \A m, n \in 1..Len(result.msgs) :
         result.msgs[m].body.action = result.msgs[n].body.action => m = n
    /\ \A m \in 1..Len(result.msgs) :
         /\ IsSubseq(PayloadKeys(result.msgs[m]),
                     SchemaKeys(SchemaOf(TheRule.output,
                                         result.msgs[m].body.action)))
         /\ \A k, l \in 1..Len(result.msgs[m].body.payload) :
              PayloadKeys(result.msgs[m])[k] = PayloadKeys(result.msgs[m])[l]
                => k = l

C16_Witness ==
  /\ Called
  /\ HasRule
  /\ Len(result.msgs) = 2
  /\ result.msgs[1].body.action = "a"
  /\ result.msgs[2].body.action = "c"
  /\ PayloadKeys(result.msgs[1]) = <<"title", "q">>
  /\ SchemaKeys(TheRule.output[1]) = <<"title", "q">>

\* C17: two runs of extractMessages on equal documents with the same
\* patterns, query, URL and country code return lists equal in everything
\* but the anti-duplicates values, or raise the same error: every call
\* agrees with every other run, whatever it draws, on the document the
\* call was given.
C17_DeterministicButForNonce ==
  [][(calls' = calls + 1 /\ HasRule) =>
       \A drawn \in [1..Len(TheRule.output) -> Nonces] :
         LET other == ExtractMessages(patterns, doc, args.query,
                                      args.category, args.url, args.ctry,
                                      drawn)
         IN /\ result'.err = other.err
            /\ Strip(result'.msgs) = Strip(other.msgs)
            /\ doc' = other.doc
    ]_vars

C17_Witness ==
  /\ Called
  /\ HasRule
  /\ Len(result.msgs) = 2
  /\ result.msgs[1].body.antiDuplicates # result.msgs[2].body.antiDuplicates

\* the rule with field k of output action i taken out of the schema
DropField(rule, i, k) ==
  [rule EXCEPT !.output[i].fields = Without(@, k)]

ContextNow == Context(args.query, args.url, args.ctry)

\* field k of the schema is a context field (no source) that is not
\* optional, and no other field of the schema writes its key
RequiredContextField(schema, k) ==
  /\ schema.fields[k].source = ""
  /\ ~schema.fields[k].optional
  /\ \A other \in 1..Len(schema.fields) :
       other # k => schema.fields[other].key # schema.fields[k].key

Zipped(group, r) ==
  [k \in 1..Len(group) |-> [key |-> group[k].key, value |-> group[k].value[r]]]

\* the root matches whose zipped entry has every required key present
Qualifying(selectorDef, group, field) ==
  LET required == IF field.hasRequiredKeys THEN field.requiredKeys
                  ELSE [k \in 1..Len(selectorDef.fields) |->
                         selectorDef.fields[k].key]
      n == IF group = <<>> THEN 0 ELSE Len(group[1].value)
  IN {r \in 1..n :
        \A x \in 1..Len(required) :
          \E k \in 1..Len(group) :
            group[k].key = required[x] /\ isPresent(group[k].value[r])}

\* field k of the schema is merged from an `all` group and no other field
\* of the schema writes its key
ArrayField(schema, k) ==
  /\ schema.fields[k].source # ""
  /\ InputIndex(TheRule.input, schema.fields[k].source) # 0
  /\ TheRule.input[InputIndex(TheRule.input, schema.fields[k].source)].kind
       = "all"
  /\ \A other \in 1..Len(schema.fields) :
       other # k => schema.fields[other].key # schema.fields[k].key

\* C22: for a field merged from an `all` group, the payload value holds
\* exactly the zipped entries in which every required key (requiredKeys if
\* given, otherwise every field of the group) is present, in root-match
\* order, under the keys "0", "1", ..., "n-1" without gaps; when no entry
\* qualifies, the action is discarded if the field is not optional and the
\* value is the empty mapping if it is.
C22_ArrayMergedField ==
  (Called /\ HasRule /\ result.err = "") =>
    \A i \in 1..Len(TheRule.output) :
      \A k \in 1..Len(TheRule.output[i].fields) :
        ArrayField(TheRule.output[i], k) =>
          LET schema == TheRule.output[i]
              field == schema.fields[k]
              idx == InputIndex(TheRule.input, field.source)
              group == FoundNow[idx]
              Q == Qualifying(TheRule.input[idx], group, field)
          IN /\ (Q = {} /\ ~field.optional) => ~HasMessage(schema.action)
             /\ (/\ Q # {} \/ field.optional
                 /\ schema.omitIfExistsAny = <<>>
                 /\ \A other \in 1..Len(schema.fields) :
                      other # k => schema.fields[other].optional)
                  => HasMessage(schema.action)
             /\ \A m \in 1..Len(result.msgs) :
                  result.msgs[m].body.action = schema.action =>
                    \E p \in 1..Len(result.msgs[m].body.payload) :
                      LET entry == result.msgs[m].body.payload[p]
                      IN /\ entry.key = field.key
                         /\ entry.isArray
                         /\ Len(entry.value) = Cardinality(Q)
                         /\ \A j \in 1..Len(entry.value) :
                              entry.value[j].key = ToString(j - 1)
                         /\ \E f \in [1..Len(entry.value) -> Q] :
                              /\ \A a, b \in 1..Len(entry.value) :
                                   a < b => f[a] < f[b]
                              /\ \A j \in 1..Len(entry.value) :
                                   entry.value[j].value = Zipped(group, f[j])

\* of two items only the second has a link target, and requiredKeys asks
\* for the target only: the entry is kept under "0" with its empty name
C22_Witness ==
  /\ Called
  /\ HasRule
  /\ Len(doc) = 2
  /\ TheRule.output[1].fields[2].requiredKeys = <<"url">>
  /\ HasMessage("a")
  /\ \E p \in 1..Len(result.msgs[1].body.payload) :
       LET entry == result.msgs[1].body.payload[p]
       IN /\ entry.key = "items"
          /\ Len(entry.value) = 1
          /\ entry.value[1].key = "0"
          /\ entry.value[1].value = Zipped(FoundNow[1], 2)
          /\ Lookup(entry.value[1].value, "name") = ""
          /\ Lookup(Zipped(FoundNow[1], 1), "name") = "no target"

\* what the claim says a first-match definition extracts from a root item:
\* the first alternative with a non-null selection, through its own chain
FirstNonNull(rootItem, alternatives, baseURI) ==
  LET selection(a) ==
        OrNull(runSelector(rootItem, alternatives[a].select,
                           alternatives[a].attr, baseURI))
      winners == {a \in 1..Len(alternatives) : selection(a) # Null}
      first == CHOOSE a \in winners : \A b \in winners : a <= b
  IN IF winners = {} THEN Null
     ELSE runTransforms(selection(first), alternatives[first].transform)

\* C23: a field defined with firstMatch takes its value from the first
\* alternative, in list order, whose runSelector result is non-null, and
\* only that alternative's transform chain is applied to it: no later
\* alternative is evaluated (it raises nothing), and an earlier alternative
\* whose chain yields null still wins; without a non-null selection the
\* value is null.
C23_FirstNonNullSelectionWins ==
  (Called /\ HasRule) =>
    LET group == TheRule.input[1]
        alternatives == group.fields[1].def.firstMatch
        roots == QuerySelectorAll(doc, "li")
        expected == [r \in 1..Len(roots) |->
                      FirstNonNull(roots[r], alternatives, args.url)]
        seen == IF group.kind = "all" THEN expected
                ELSE SubSeq(expected, 1, Min(1, Len(expected)))
    IN IF \E r \in 1..Len(seen) : IsThrow(seen[r])
       THEN result.err = BadPatternError /\ result.msgs = <<>>
       ELSE /\ result.err = ""
            /\ Len(result.msgs) = 1
            /\ Len(result.msgs[1].body.payload) = 1
            /\ LET entry == result.msgs[1].body.payload[1]
               IN IF group.kind = "all"
                  THEN /\ Len(entry.value) = Len(seen)
                       /\ \A r \in 1..Len(seen) :
                            entry.value[r].value
                              = <<[key |-> "v", value |-> seen[r]]>>
                  ELSE entry.value = IF seen = <<>> THEN Null ELSE seen[1]

\* the first alternative selects the link text "no target" and its chain
\* makes it null; the second alternative, whose chain names a transform the
\* registry does not have, is not evaluated and nothing is raised
C23_Witness ==
  /\ Called
  /\ HasRule
  /\ TheRule.input[1].kind = "all"
  /\ Len(TheRule.input[1].fields[1].def.firstMatch) = 2
  /\ TheRule.input[1].fields[1].def.firstMatch[1].attr = "textContent"
  /\ TheRule.input[1].fields[1].def.firstMatch[1].select = "a"
  /\ TheRule.input[1].fields[1].def.firstMatch[2].attr = "textContent"
  /\ TheRule.input[1].fields[1].def.firstMatch[2].select = ""
  /\ Len(doc) = 2
  /\ result.err = ""
  /\ Len(result.msgs) = 1
  /\ result.msgs[1].body.payload[1].value[1].value
       = <<[key |-> "v", value |-> Null]>>
  /\ result.msgs[1].body.payload[1].value[2].value
       = <<[key |-> "v", value |-> "one"]>>

\* C28: extractMessages changes the document only through the prune
\* directives: a call for a category without a rule, or with a rule that
\* has no preprocess.prune entries, leaves the document as it was, and a
\* call on the document of an earlier call returns what that call returned
\* whenever it leaves the document as it was; with prune entries a second
\* call on the same document need not return the messages of the first.
C28_DocumentChangedByPruneOnly ==
  [][(calls' = calls + 1) =>
       /\ (~HasRule \/ TheRule.prune = <<>>) => doc' = doc
       /\ (calls > 0 /\ doc' = doc) =>
            /\ result'.err = result.err
            /\ Strip(result'.msgs) = Strip(result.msgs)
    ]_vars

\* the second call on the scenario document with the directive
\* {first: 'p'}: the first call removed <p>X</p> and returned the title
\* 1234XX5X6, the second removed <p>3</p>
C28_Witness ==
  /\ calls = 2
  /\ TheRule.prune = <<[kind |-> "first", selector |-> "p"]>>
  /\ doc = Prune(Prune(DocScenario, TheRule.prune).nodes, TheRule.prune).nodes
  /\ Strip(ExtractRule(TheRule, DocScenario, args.query, args.url, args.ctry,
                       <<0>>).msgs)[1].payload[1].value = "1234XX5X6"
  /\ result.msgs[1].body.payload[1].value = "124XX5X6"

----------------------------------------------------------------------------
(* Properties of runTransforms, checked under SpecTransforms               *)

Malformed(transformSteps) ==
  \/ ~transformSteps.isArray
  \/ \E n \in 1..Len(transformSteps.steps) : ~transformSteps.steps[n].isArray

\* C24 as stated: runTransforms raises a permanent error whenever `steps`
\* is no list or some entry of `steps` is no list, for every input value,
\* null and undefined included.
C24_MalformedStepsAlwaysThrow ==
  (Called /\ Malformed(args.transformSteps)) =>
    result.err = BadPatternError

\* C24 (amended): runTransforms raises a permanent error whenever `steps`
\* is no list, for every input value, null and undefined included; when
\* `steps` is a list with an entry that is no list, it raises a permanent
\* error for every input value that is neither null nor undefined, and
\* returns null without raising for null and undefined.
C24_MalformedStepsAmended ==
  (Called /\ Malformed(args.transformSteps)) =>
    IF ~args.transformSteps.isArray \/ args.value \notin {Null, Undefined}
    THEN result.err = BadPatternError
    ELSE result.err = "" /\ result.value = Null

C24_Witness ==
  /\ Called
  /\ args.value = Null
  /\ ~args.transformSteps.isArray
  /\ result.err = BadPatternError

WellFormed(transformSteps) ==
  /\ transformSteps.isArray
  /\ \A n \in 1..Len(transformSteps.steps) :
       /\ transformSteps.steps[n].isArray
       /\ transformSteps.steps[n].name \in KnownTransforms

\* C25: for a null or undefined input and a `steps` argument that is a
\* list, runTransforms returns null, looks up no transform in the registry
\* and raises nothing, also when a step names an unknown transform; for
\* another input and a chain of known transforms, each step's function is
\* applied to the value the step before it returned, in list order, and a
\* final undefined is returned as null.
C25_NullShortCircuitsAndStepsChain ==
  Called =>
    /\ (args.transformSteps.isArray /\ args.value \in {Null, Undefined}) =>
         /\ result.err = ""
         /\ result.value = Null
         /\ result.lookups = <<>>
    /\ (WellFormed(args.transformSteps)
          /\ args.value \notin {Null, Undefined}) =>
         LET steps == args.transformSteps.steps
         IN /\ result.err = ""
            /\ result.lookups = [n \in 1..Len(steps) |-> steps[n].name]
            /\ \E tmp \in [0..Len(steps) -> TransformValues] :
                 /\ tmp[0] = args.value
                 /\ \A n \in 1..Len(steps) :
                      tmp[n] = ApplyTransform(steps[n].name,
                                                  tmp[n - 1],
                                                  steps[n].args)
                 /\ result.value = IF tmp[Len(steps)] = Undefined
                                   THEN Null ELSE tmp[Len(steps)]

C25_Witness ==
  /\ Called
  /\ args.value = "one"
  /\ args.transformSteps.isArray
  /\ Len(args.transformSteps.steps) = 2
  /\ args.transformSteps.steps[1].name = "filterExact"
  /\ args.transformSteps.steps[2].name = "returnsNothing"
  /\ result.lookups = <<"filterExact", "returnsNothing">>
  /\ result.value = Null

----------------------------------------------------------------------------
(* Properties of runJob, checked under Spec                                *)

JobHash(j) == doublefetchQueryHash(job[j].query, job[j].category)
Made(j, call) == InSeq(call, log[j])
SameQuery(j, k) ==
  /\ j # k
  /\ pc[j] # "new"
  /\ pc[k] # "new"
  /\ job[j].category = job[k].category
  /\ Trim(job[j].query) = Trim(job[k].query)
CaughtErrors == FetchErrors \cup {ParseError}

\* C1: when persistedHashes.add reports that the fingerprint was not newly
\* inserted, the job finishes with an empty message list and calls neither
\* the fetch collaborator, the HTML parser, the extractor nor delete.
C1_NotAddedFinishesEmpty ==
  \A j \in Jobs :
    Made(j, "add:false") =>
      /\ pc[j] = "done"
      /\ outcome[j].kind = "returned"
      /\ outcome[j].messages = <<>>
      /\ \A call \in {"anonymousHttpGet", "parseHtml", "extractMessages",
                      "delete"} : ~Made(j, call)

C1_Witness ==
  \E j, k \in Jobs :
    /\ Made(j, "add:false")
    /\ pc[j] = "done"
    /\ pc[k] = "fetching"
    /\ JobHash(k) = JobHash(j)

\* C2 as claimed: among the runJob invocations that share the category and
\* the trimmed query, at most one ever calls the fetch collaborator.
C2_FetchedAtMostOnce ==
  \A j, k \in Jobs :
    SameQuery(j, k) =>
      ~(Made(j, "anonymousHttpGet") /\ Made(k, "anonymousHttpGet"))

\* C2 as amended: among the runJob invocations that share the category and
\* the trimmed query, at most one gets a fetched and parsed document, and
\* of any two that called the fetch collaborator one had its fetch or parse
\* fail and its fingerprint deleted.
C2_FetchedAgainOnlyAfterRelease ==
  \A j, k \in Jobs :
    SameQuery(j, k) =>
      /\ ~(docState[j] # "none" /\ docState[k] # "none")
      /\ (Made(j, "anonymousHttpGet") /\ Made(k, "anonymousHttpGet"))
           => (Made(j, "delete:ok") \/ Made(k, "delete:ok"))

C2_Witness ==
  \E j, k \in Jobs :
    /\ SameQuery(j, k)
    /\ job[j].query # job[k].query
    /\ Made(j, "delete:ok")
    /\ docState[k] = "open"
    /\ outcome[k].messages # <<>>

\* C3: when the fetch or the parse fails after the fingerprint was newly
\* added, delete is called before the job ends, and the job ends by
\* throwing the error it caught, also when delete fails; it returns no
\* result object.
C3_FetchFailureReleasesAndRethrows ==
  \A j \in Jobs :
    \A e \in CaughtErrors :
      Made(j, e) =>
        /\ Made(j, "add:true")
        /\ Made(j, "delete")
        /\ outcome[j].kind # "returned"
        /\ pc[j] = "done" =>
             (outcome[j].kind = "threw" /\ outcome[j].error = e)

C3_Witness ==
  \E j \in Jobs :
    /\ pc[j] = "done"
    /\ Made(j, ParseError)
    /\ Made(j, "delete:failed")
    /\ outcome[j].error = ParseError

\* C4: when extractMessages throws after a successful fetch and parse, the
\* job returns an empty message list, throws nothing, never calls delete,
\* and the fingerprint stays in the store.
C4_ExtractFailureKeepsFingerprint ==
  \A j \in Jobs :
    Made(j, "extractMessages:threw") =>
      /\ pc[j] = "done"
      /\ outcome[j].kind = "returned"
      /\ outcome[j].messages = <<>>
      /\ ~Made(j, "delete")
      /\ JobHash(j) \in store

C4_Witness ==
  \E j, k \in Jobs :
    /\ Made(j, "extractMessages:threw")
    /\ Made(k, "add:false")
    /\ JobHash(k) = JobHash(j)

\* C5: when checkSuspiciousQuery does not accept the query, the job
\* finishes with an empty message list and a reason, and calls neither
\* persistedHashes.add nor the fetch collaborator: its only call is the
\* check, so it leaves the store as it was.
C5_SuspiciousQueryDropped ==
  \A j \in Jobs :
    (pc[j] # "new" /\ ~QueryAccepted(job[j].query)) =>
      /\ pc[j] = "done"
      /\ outcome[j].kind = "returned"
      /\ outcome[j].messages = <<>>
      /\ isPresent(outcome[j].reason)
      /\ log[j] = <<"checkSuspiciousQuery">>
      /\ (JobHash(j) \in store =>
            \E k \in Jobs \ {j} : Made(k, "add:true") /\ JobHash(k) = JobHash(j))

C5_Witness ==
  \E j, k \in Jobs :
    /\ pc[j] = "done"
    /\ ~QueryAccepted(job[j].query)
    /\ JobHash(j) \notin store
    /\ pc[k] = "fetching"

\* C6: every document that runJob obtained from parseHtml is closed by the
\* time runJob ends, on every path.
C6_DocumentClosedAtEnd ==
  \A j \in Jobs : pc[j] = "done" => docState[j] # "open"

\* the jobs whose fingerprint the store holds: added it, did not delete it
Holders(j) ==
  {k \in Jobs \ {j} : Made(k, "add:true") /\ ~Made(k, "delete:ok")}

\* C26: the cooldown fingerprint depends on the category and the trimmed
\* query only: a job whose query differs from an earlier accepted job's
\* query by leading or trailing whitespace only, in the same category, is
\* discarded as recently seen while the earlier fingerprint is in the
\* store; fingerprints of the same query in other categories do not block
\* it.
C26_FingerprintOfCategoryAndTrimmedQuery ==
  [][\A j \in Jobs :
       (pc[j] = "new" /\ pc'[j] # "new" /\ QueryAccepted(job'[j].query)) =>
         /\ (\E k \in Holders(j) :
               /\ job[k].category = job'[j].category
               /\ Trim(job[k].query) = Trim(job'[j].query))
              => /\ pc'[j] = "done"
                 /\ outcome'[j] = Discard("recently seen")
                 /\ store' = store
         /\ (\A k \in Holders(j) : job[k].category # job'[j].category)
              => /\ pc'[j] = "fetching"
                 /\ store' # store
    ]_vars

C26_Witness ==
  \E j, k \in Jobs :
    /\ job[k].query = <<"f">>
    /\ job[j].query = <<" ", "f", " ">>
    /\ job[j].category = job[k].category
    /\ Made(k, "add:true")
    /\ ~Made(k, "delete")
    /\ Made(j, "add:false")
    /\ outcome[j] = Discard("recently seen")

InFetchPhase(j) == pc[j] \in {"fetching", "parsing"}

\* C27: with an atomic persistedHashes.add and no expiry in between, among
\* concurrent runJob invocations with the same fingerprint at most one at
\* a time is between its successful add and the end of its fetch and parse
\* phase, and a job deletes a fingerprint only if it inserted it itself:
\* the entry a delete removes is the one the deleting job added.
C27_OneFetchPerFingerprint ==
  [][/\ \A j, k \in Jobs :
          (j # k /\ InFetchPhase(j)' /\ InFetchPhase(k)')
            => JobHash(j)' # JobHash(k)'
     /\ \A j \in Jobs :
          (pc[j] = "deleting" /\ pc'[j] = "done") =>
            /\ Made(j, "add:true")
            /\ store' \in {store, store \ {JobHash(j)}}
            /\ \A k \in Holders(j) : JobHash(k) # JobHash(j)
    ]_vars

C27_Witness ==
  \E j, k \in Jobs :
    /\ SameQuery(j, k)
    /\ Made(j, "delete:ok")
    /\ pc[j] = "done"
    /\ InFetchPhase(k)
    /\ JobHash(k) \in store

----------------------------------------------------------------------------
(* Properties of the token telemetry, checked under SpecTelemetry          *)

\* the (message, position) pairs of telemetry that report the token on
\* the day
TokenReports(token, ts) ==
  {<<m, i>> \in (1..Len(telemetry)) \X (1..options.TOKEN_MESSAGE_SIZE) :
     /\ telemetry[m].action = "attrack.tokensv2"
     /\ i <= Len(telemetry[m].payload)
     /\ telemetry[m].payload[i].token = token
     /\ telemetry[m].payload[i].ts = ts}

\* C18: a token value is included in outgoing 'attrack.tokensv2' messages
\* at most once per calendar day of the trusted clock, whatever the
\* publications, batch ticks and clean runs, also when the token is
\* published to the send queue several times within one batch interval.
C18_TokenSentOncePerDay ==
  \A token \in SeqSet(KeyOrder) : \A ts \in 1..MaxDays :
    Cardinality(TokenReports(token, ts)) <= 1

\* the batches of the key pipeline that report the (key, tracker) tuple on
\* the day
KeyBatches(key, tracker, ts) ==
  {telemetry[m].batch : m \in
     {n \in 1..Len(telemetry) :
        /\ telemetry[n].action = "attrack.keysv2"
        /\ \E i \in 1..Len(telemetry[n].payload) :
             /\ telemetry[n].payload[i].key = key
             /\ telemetry[n].payload[i].tracker = tracker
             /\ telemetry[n].payload[i].ts = ts}}

\* C19: a (key, tracker) tuple is included in outgoing 'attrack.keysv2'
\* messages in at most one batch per calendar day, whatever the
\* publications, batch ticks and clean runs.
C19_KeySentInOneBatchPerDay ==
  \A key \in {Md5("k1"), Md5("k2")} :
    \A tracker \in {TruncatedHash("tp.test")} : \A ts \in 1..MaxDays :
      Cardinality(KeyBatches(key, tracker, ts)) <= 1

----------------------------------------------------------------------------
(* Properties of extractKeyTokens, checked under SpecRequests              *)

\* C20: extractKeyTokens on a request state with isPrivate set publishes
\* nothing to subjectTokens and changes no token or key cache entry; in
\* every case, private or not, it returns true.
C20_PrivateRequestLeavesNoTrace ==
  [][(requests' = requests + 1) =>
       /\ ret' = "true"
       /\ state'.isPrivate =>
            /\ filteredTokensBatch' = filteredTokensBatch
            /\ cache' = cache
            /\ batch' = batch
    ]_vars

C20_Witness ==
  /\ requests > 1
  /\ state.isPrivate
  /\ ret = "true"
  /\ filteredTokensBatch # <<>>
  /\ cache["tokens"] # <<>>

----------------------------------------------------------------------------
(* Properties of createMessagePayloads, checked under SpecPayloads         *)

\* the calls of createMessagePayloads made on the pipeline
PayloadCalls(pipe) ==
  {i \in 1..Len(running) : running[i].pipe = pipe}

RECURSIVE Flatten(_)
Flatten(seqs) ==
  IF seqs = <<>> THEN <<>> ELSE Head(seqs) \o Flatten(Tail(seqs))

\* C29: with a positive batchLimit, TokenPipeline.createMessagePayloads
\* returns at most batchLimit messages, each of at most TOKEN_MESSAGE_SIZE
\* token payloads and only the last one smaller than that; the tokens of
\* the messages followed by the tokens of `overflow` are the candidates in
\* input order, none lost and none twice.
C29_TokenMessagesPartitionCandidates ==
  \A i \in PayloadCalls("tokens") :
    LET messages == running[i].messages
        overflow == running[i].overflowKeys
        packed == Flatten(messages)
    IN options.TOKEN_BATCH_SIZE > 0 =>
         /\ Len(messages) <= options.TOKEN_BATCH_SIZE
         /\ \A m \in 1..Len(messages) :
              /\ Len(messages[m]) >= 1
              /\ Len(messages[m]) <= options.TOKEN_MESSAGE_SIZE
              /\ m < Len(messages) =>
                   Len(messages[m]) = options.TOKEN_MESSAGE_SIZE
         /\ [k \in 1..Len(packed) |-> packed[k].token] \o overflow
              = running[i].keys

\* five candidates for two messages of two: four packed, one overflows
C29_Witness ==
  \E i \in PayloadCalls("tokens") :
    /\ options.TOKEN_BATCH_SIZE = 2
    /\ options.TOKEN_MESSAGE_SIZE = 2
    /\ Len(running[i].keys) = 5
    /\ Len(running[i].messages) = 2
    /\ Len(running[i].overflowKeys) = 1

\* C30: KeyPipeline.createMessagePayloads returns at most batchLimit
\* (KEY_BATCH_SIZE) messages for every list of candidate entries, entries
\* with tokens on several sites included.
C30_KeyMessagesWithinBatchLimit ==
  \A i \in PayloadCalls("keys") :
    Len(running[i].messages) <= options.KEY_BATCH_SIZE

----------------------------------------------------------------------------
(* Properties of the send pipelines, checked under SpecOverflow            *)

\* batch `no` of the pipeline has overflowed the key
Overflowed(pipe, k, no) ==
  \E i \in 1..Len(running) :
    /\ running[i].kind = "send"
    /\ running[i].pipe = pipe
    /\ running[i].no = no
    /\ k \in SeqSet(running[i].overflowKeys)

\* the payload reports the token or the (tracker, key) tuple
Reports(pipe, payload, k) ==
  IF pipe = "tokens"
  THEN \E t \in 1..Len(payload) : payload[t].token = k
  ELSE \E t \in 1..Len(payload) :
         payload[t].tracker \o ":" \o payload[t].key = k

\* a batch after `no` has sent a message with the key
SentLater(pipe, k, no) ==
  \E m \in 1..Len(telemetry) :
    /\ telemetry[m].action = ActionOf(pipe)
    /\ telemetry[m].batch > no
    /\ Reports(pipe, telemetry[m].payload, k)

----------------------------------------------------------------------------
(* Properties of the filteredTokens subscriber, checked under SpecBuffer   *)

\* the buffered entries that carry the token
Carrying(token) ==
  SelectSeq(filteredTokensBatch, LAMBDA entry : entry.token = token)

\* the token's cache entry, a new one if it has none
StatsOf(m, token) ==
  IF token \in DOMAIN m THEN m[token] ELSE newEntry("tokens", now)

\* C32: when the filteredTokens subscriber processes a buffered batch, the
\* sites and trackers added to a token's cache entry and an unsafe flag
\* folded into it come only from the buffered entries carrying that token.
C32_BatchFoldedPerToken ==
  [][(filteredTokensBatch # <<>> /\ filteredTokensBatch' = <<>>) =>
       \A token \in DOMAIN cache'["tokens"] :
         LET before == StatsOf(cache["tokens"], token)
             after == cache'["tokens"][token]
             carrying == Carrying(token)
         IN /\ after.sites \ before.sites
                 \subseteq {carrying[i].fp : i \in 1..Len(carrying)}
            /\ after.trackers \ before.trackers
                 \subseteq {carrying[i].tp : i \in 1..Len(carrying)}
            /\ (before.safe = "true" /\ after.safe # "true") =>
                 \E i \in 1..Len(carrying) : carrying[i].safe # "true"]_vars

----------------------------------------------------------------------------
(* Properties of the safe flag, checked under SpecObserved                 *)

\* the safe flags the messages report for the token
SafeReported(messages, token) ==
  UNION {{messages[m][t].safe : t \in {x \in 1..Len(messages[m]) :
                                         messages[m][x].token = token}} :
           m \in 1..Len(messages)}

\* the safe flags reported for the token by the batches still running
SafeHeld(token) ==
  UNION {SafeReported(running[i].messages, token) :
           i \in {x \in 1..Len(running) : running[x].pipe = "tokens"}}

\* the safe flags reported for the token by the messages sent
SafeSent(token) ==
  SafeReported([m \in 1..Len(telemetry) |->
                  IF telemetry[m].action = ActionOf("tokens")
                  THEN telemetry[m].payload ELSE <<>>], token)

Unsent(token) == SafeHeld(token) \cup SafeSent(token) = {}

\* C35: a token's cache entry that an observed entry has marked unsafe and
\* that has not been sent stays unsafe, whatever is observed or merged from
\* the database, and the message made for it reports safe = false.
C35_UnsafeUntilSent ==
  [][\A token \in DOMAIN cache["tokens"] :
       (cache["tokens"][token].safe = "false" /\ Unsent(token)) =>
         /\ SafeHeld(token)' \subseteq {"false"}
         /\ (token \in DOMAIN cache'["tokens"] /\ Unsent(token)') =>
              cache'["tokens"][token].safe = "false"]_vars

----------------------------------------------------------------------------
(* Properties of clean(), checked under SpecClean                          *)

\* the step is clean() of the pipeline running from the rows of db.where
\* to its await of saveBatchToDb
CleanRuns(pipe) ==
  \E i \in 1..Len(running) :
    /\ running[i].kind = "clean"
    /\ running[i].pipe = pipe
    /\ running[i].pc = "load"
    /\ Len(running') = Len(running)
    /\ running'[i].pc = "save"

\* C33: clean() never removes a dirty entry from the cache: every dirty
\* entry stays, is written to the database and is marked clean; only
\* entries that are clean and have a lastSent value are evicted; when the
\* cache has been walked no entry of it is dirty.
C33_CleanKeepsDirtyEntries ==
  [][\A pipe \in Pipes : CleanRuns(pipe) =>
       /\ \A k \in DOMAIN cache[pipe] :
            cache[pipe][k].dirty =>
              /\ k \in DOMAIN cache'[pipe]
              /\ ~cache'[pipe][k].dirty
              /\ k \in DOMAIN db'[pipe]
              /\ db'[pipe][k] = serialiseEntry(pipe, k, cache'[pipe][k])
       /\ \A k \in (DOMAIN cache[pipe]) \ DOMAIN cache'[pipe] :
            ~cache[pipe][k].dirty /\ cache[pipe][k].lastSent > EmptyLastSent
       /\ \A k \in DOMAIN cache'[pipe] : ~cache'[pipe][k].dirty]_vars

\* the first clean() of the tokens has evicted md5(v1), sent today, and
\* has saved md5(v2), which had no row
C33_Witness ==
  /\ ticks["clean"] = 1
  /\ \E i \in 1..Len(running) :
       running[i].kind = "clean" /\ running[i].pipe = "tokens"
         /\ running[i].pc = "save"
         /\ Len(running[i].rows) = 1
         /\ running[i].rows[1].token = Md5("v1")
  /\ Md5("v1") \notin DOMAIN cache["tokens"]
  /\ Md5("v2") \in DOMAIN cache["tokens"]
  /\ ~cache["tokens"][Md5("v2")].dirty
  /\ Md5("v2") \in DOMAIN db["tokens"]

\* the rows clean() of the pipeline examines in this step: not sent
\* today and older than NEW_ENTRY_MIN_AGE
Examined(pipe) ==
  UNION {{running[i].rows[x] :
            x \in {y \in 1..Len(running[i].rows) :
                     /\ running[i].rows[y].lastSent # day
                     /\ running[i].rows[y].created
                          < now - options.NEW_ENTRY_MIN_AGE}} :
           i \in {j \in 1..Len(running) :
                    /\ running[j].kind = "clean"
                    /\ running[j].pipe = pipe
                    /\ running[j].pc = "load"
                    /\ Len(running') = Len(running)
                    /\ running'[j].pc = "save"}}

\* C34: clean() deletes from the database every examined row that has no
\* data or is old data below the count threshold (the row stays only if
\* the dirty cache entry of its key is saved over it); a row with data and
\* a count above MIN_COUNT is queued for sending and not deleted.
C34_CleanDeletesSentAndOldRows ==
  [][\A pipe \in Pipes : \A row \in Examined(pipe) :
       LET k == row[PrimaryKey(pipe)]
           old == row.created < now - options.LOW_COUNT_DISCARD_AGE
       IN /\ (\/ ~hasData(pipe, row)
              \/ hasData(pipe, row) /\ row.count <= options.MIN_COUNT /\ old)
               => \/ k \notin DOMAIN db'[pipe]
                  \/ k \in DOMAIN cache[pipe] /\ cache[pipe][k].dirty
          /\ (hasData(pipe, row) /\ row.count > options.MIN_COUNT)
               => k \in DOMAIN db'[pipe] /\ k \in SeqSet(batch'[pipe])]_vars

----------------------------------------------------------------------------
(* Properties of CookieContext, checked under SpecCookie                   *)

\* the step is a call of the method named
Calls(method) == requests' = requests + 1 /\ state'.call = method

\* the link assignCookieTrust asks for is refused: the two hosts share
\* their general domain or the third party is a tracker domain now
Refused(st) ==
  \/ getGeneralDomain(st.referrer) = getGeneralDomain(st.hostname)
  \/ isTrackerDomain(db, st.hostname)

PairOf(st) == TrustKey(st.tabHostname, st.hostname)

\* C36: trustedThirdParties never holds a pair of hosts of one general
\* domain, and a pair enters it only by assignCookieTrust while its third
\* party is not a tracker domain; for a refused pair assignCookieTrust
\* leaves the map unchanged; checkCookieTrust returns false only if
\* config.cookieTrustReferers is set and the pair is in the map, and then
\* increments the pair's counter and sets its timestamp to now; otherwise
\* it returns true and changes nothing.
C36_TrustLinksOnlyAcrossDomains ==
  /\ [](\A first \in Hosts, third \in Hosts :
          getGeneralDomain(first) = getGeneralDomain(third) =>
            TrustKey(first, third) \notin DOMAIN cache)
  /\ [][/\ \A first \in Hosts, third \in Hosts :
            TrustKey(first, third) \in (DOMAIN cache') \ DOMAIN cache =>
              /\ Calls("assignCookieTrust")
              /\ state'.referrer = first /\ state'.hostname = third
              /\ ~isTrackerDomain(db, third)
        /\ (Calls("assignCookieTrust") /\ Refused(state')) => cache' = cache
        /\ Calls("checkCookieTrust") =>
             IF options.cookieTrustReferers /\ PairOf(state') \in DOMAIN cache
             THEN /\ ret' = "false"
                  /\ DOMAIN cache' = DOMAIN cache
                  /\ cache'[PairOf(state')]
                       = [c |-> cache[PairOf(state')].c + 1, ts |-> now]
                  /\ \A k \in (DOMAIN cache) \ {PairOf(state')} :
                       cache'[k] = cache[k]
             ELSE /\ ret' = "true"
                  /\ cache' = cache
                  /\ telemetry' = telemetry]_vars

\* a link to y.test was trusted and used while y.test was no tracker
\* domain; y.test has become one, and assignCookieTrust has just been
\* asked for a link to it, and the clock has moved on
C36_Witness ==
  /\ requests = MaxTrustCalls
  /\ state.call = "assignCookieTrust"
  /\ state.isMainFrame
  /\ state.referrer = "a.x.test"
  /\ state.hostname = "y.test"
  /\ isTrackerDomain(db, "y.test")
  /\ TrustKey("a.x.test", "y.test") \in DOMAIN cache
  /\ cache[TrustKey("a.x.test", "y.test")] = [c |-> 1, ts |-> 0]
  /\ now > 0

====
